---- MODULE Spec2Model ----
(***************************************************************************)
(* ModelManager.text_to_speech and ModelManager._fallback_tts              *)
(* (app/backend/utils/model_manager.py): the length branch, the chunk      *)
(* planner, the two-worker pool, the fallback cascade and the file write.  *)
(*                                                                         *)
(* Texts are sequences of one-character strings.  An audio array is kept   *)
(* run-length encoded: a sequence of runs [v |-> sample value, n |-> how   *)
(* many consecutive samples carry it]; concatenation of arrays is \o.      *)
(* The synthesis engine is opaque: a call yields some arrays and then ends *)
(* or raises, and the samples of the j-th array of a call are tagged with  *)
(* the call, so audio of different calls is told apart.                    *)
(* sf.write is taken to succeed.                                           *)
(*                                                                         *)
(* Eight specifications: Spec, one request on plain text; SpecFront, one   *)
(* request on text with markup, any voice and any speed; SpecTail, one     *)
(* request on text ending in blanks; SpecLive, the same requests under     *)
(* weak fairness of the request's thread and of the pool's threads;        *)
(* SpecTwo, two requests in flight on one ModelManager; SpecRun,           *)
(* MultimodalCorrectionPipeline.run                                        *)
(* (app/backend/services/multimodal_pipeline.py), for which text_to_speech *)
(* is one call; SpecRoute, the Flask application serving one HTTP request  *)
(* (app/backend/services/flask_app.py), for which text_to_speech is one    *)
(* call as well; SpecPlan, the chunk planner applied to short texts.       *)
(***************************************************************************)
EXTENDS Integers, Sequences, FiniteSets, TLC

VARIABLES
    text,             \* the text given to text_to_speech
    pc,               \* where the request stands
    cleaned_text,     \* cleaned_text of text_to_speech; text of _fallback_tts
    planned,          \* the chunk planner has run
    text_chunks,      \* the chunk plan
    futures,          \* per submitted chunk: state and result of its future
    collected,        \* futures already yielded by as_completed
    all_audio_chunks, \* non-empty chunk results, in the order collected
    sentences,        \* _fallback_tts: the sentence split
    si,               \* _fallback_tts: index of the next sentence
    audio_chunks,     \* _fallback_tts: arrays gathered so far
    calls,            \* engine calls of the request's own thread, in order
    files,            \* files written with sf.write
    returned,         \* the value returned to the caller
    next_uuid,        \* uuid.uuid4(): the next fresh identifier
    voice,            \* the voice given to text_to_speech
    voice_file_exists,\* os.path.exists(local_voice_path)
    speed,            \* the speed given to text_to_speech, in tenths
    use_voice,        \* the voice the engine is called with
    clean_called,     \* clean_text_for_tts has been called
    rid,              \* which request the variables above belong to
    other,            \* the local variables of the other request in flight
    image_path,       \* MultimodalCorrectionPipeline.run: its arguments
    audio_path,
    query_text,
    enable_tts,
    run_pc,           \* run: where it stands
    transcribed_text, \* run: its local variables
    initial_response,
    corrected_response,
    results,          \* run: the dictionary it returns
    manager_calls,    \* run: its calls of the ModelManager, in order
    request,          \* flask_app: the HTTP request being served
    route_pc,         \* flask_app: where the serving of the request stands
    response,         \* flask_app: the response, status code and JSON body
    route_calls       \* flask_app: its calls of model_manager, in order

\* The variables of MultimodalCorrectionPipeline.run.
pipeline == <<image_path, audio_path, query_text, enable_tts, run_pc,
              transcribed_text, initial_response, corrected_response,
              results, manager_calls>>

\* The variables of the Flask application (services/flask_app.py).
route == <<request, route_pc, response, route_calls>>

\* What the steps of text_to_speech and _fallback_tts never assign.
env == <<voice, voice_file_exists, speed, rid, other, pipeline, route>>

\* What text_to_speech assigns before the length branch and never after.
front == <<use_voice, clean_called>>

vars == <<text, pc, cleaned_text, planned, text_chunks, futures, collected,
          all_audio_chunks, sentences, si, audio_chunks, calls, files,
          returned, next_uuid, voice, voice_file_exists, speed, use_voice,
          clean_called, rid, other, pipeline, route>>

\* The variables of text_to_speech and _fallback_tts.
speech == <<text, pc, cleaned_text, planned, text_chunks, futures, collected,
            all_audio_chunks, sentences, si, audio_chunks, calls, files,
            returned, next_uuid, voice, voice_file_exists, speed, use_voice,
            clean_called, rid, other>>

(***************************************************************************)
(* Bounds of the model and constants of the program.                       *)
(***************************************************************************)
MaxSentences == 3
MaxYield == 1

ChunkThreshold == 150
MaxChunkChars == 150
MinChunkChars == 5
max_workers == 2
output_sample_rate == 22050
fallback_sample_rate == 22050
error_sample_rate == 22050
silent_sample_rate == 22050
SilentSamples == 22050

\* speed=1.2, the default of text_to_speech, in tenths
DefaultSpeed == 12

NoFile == [id |-> 0, suffix |-> "none"]

(***************************************************************************)
(* Characters and the regular expressions of the two sentence splitters.   *)
(***************************************************************************)
IsTerminal(c) == c \in {".", "!", "?"}

IsSpace(c) == c = " "

\* str.strip()
Strip(s) ==
    LET keep == {i \in 1..Len(s) : ~IsSpace(s[i])}
    IN  IF keep = {} THEN <<>>
        ELSE LET lo == CHOOSE i \in keep : \A j \in keep : i <= j
                 hi == CHOOSE i \in keep :
                          \A j \in (i + 1)..Len(s) : IsSpace(s[j])
             IN  SubSeq(s, lo, hi)

\* Positions where a maximal run of [.!?] ends: re.split(r'([.!?]+)', s)
RunEnds(s) ==
    {i \in 1..Len(s) :
        IsTerminal(s[i]) /\ (i = Len(s) \/ ~IsTerminal(s[i + 1]))}

\* The k-th smallest element of a finite set of integers.
RECURSIVE Nth(_, _)
Nth(S, k) ==
    LET m == CHOOSE x \in S : \A y \in S : x <= y
    IN  IF k = 1 THEN m ELSE Nth(S \ {m}, k - 1)

\* The loop over re.split(r'([.!?]+)', cleaned_text): every piece up to and
\* including a punctuation run is a sentence, stripped; what is left after
\* the last run is one more sentence when it is not the empty string.
SplitSentences(s) ==
    LET ends == RunEnds(s)
        k    == Cardinality(ends)
        from(j) == IF j = 1 THEN 1 ELSE Nth(ends, j - 1) + 1
        closed == [j \in 1..k |-> Strip(SubSeq(s, from(j), Nth(ends, j)))]
        last == IF k = 0 THEN 0 ELSE Nth(ends, k)
    IN  IF last < Len(s)
        THEN Append(closed, Strip(SubSeq(s, last + 1, Len(s))))
        ELSE closed

\* The packing loop forgetting the chunk it closes.
C24_PackStepDroppingClosed(st, sentence) ==
    LET chunks == st[1]
        current_chunk == st[2]
    IN  IF Len(current_chunk) + Len(sentence) > MaxChunkChars
        THEN <<chunks, sentence>>
        ELSE <<chunks,
               IF current_chunk # <<>> THEN current_chunk \o <<" ">> \o sentence
               ELSE sentence>>

\* One iteration of the packing loop: <<text_chunks, current_chunk>>.
PackStep(st, sentence) ==
    LET chunks == st[1]
        current_chunk == st[2]
    IN  IF Len(current_chunk) + Len(sentence) > MaxChunkChars
        THEN <<IF current_chunk # <<>> THEN Append(chunks, current_chunk)
               ELSE chunks,
               sentence>>
        ELSE <<chunks,
               IF current_chunk # <<>> THEN current_chunk \o <<" ">> \o sentence
               ELSE sentence>>

RECURSIVE PackFrom(_, _, _)
PackFrom(sents, i, st) ==
    IF i > Len(sents) THEN st
    ELSE PackFrom(sents, i + 1, PackStep(st, sents[i]))

\* Group sentences into chunks, then add the last chunk if it exists.
PackSentences(sents) ==
    LET st == PackFrom(sents, 1, <<<<>>, <<>>>>)
    IN  IF st[2] # <<>> THEN Append(st[1], st[2]) ELSE st[1]

PlanChunks(s) == PackSentences(SplitSentences(s))

\* The test without its second half.
C14_AnyChunkTooSmall(chunks) ==
    \E i \in 1..Len(chunks) : Len(chunks[i]) < MinChunkChars

\* any(len(chunk) < 5 for chunk in text_chunks) or len(text_chunks) == 1
NotChunkable(chunks) ==
    \/ \E i \in 1..Len(chunks) : Len(chunks[i]) < MinChunkChars
    \/ Len(chunks) = 1

\* Whitespace runs that follow a terminal character:
\* re.split(r'(?<=[.!?])\s+', text) cuts the text at each of them.
GapStarts(s) ==
    {i \in 2..Len(s) : IsSpace(s[i]) /\ IsTerminal(s[i - 1])}

GapEnd(s, i) ==
    CHOOSE j \in i..Len(s) :
        /\ \A m \in i..j : IsSpace(s[m])
        /\ (j = Len(s) \/ ~IsSpace(s[j + 1]))

FallbackSplit(s) ==
    LET gaps == GapStarts(s)
        k    == Cardinality(gaps)
        from(j) == IF j = 1 THEN 1 ELSE GapEnd(s, Nth(gaps, j - 1)) + 1
        to(j)   == IF j = k + 1 THEN Len(s) ELSE Nth(gaps, j) - 1
    IN  [j \in 1..(k + 1) |-> SubSeq(s, from(j), to(j))]

IsBlank(s) == Strip(s) = <<>>

ApologyText ==
    <<"I", "'", "m", " ", "s", "o", "r", "r", "y", ",", " ",
      "I", " ", "c", "o", "u", "l", "d", "n", "'", "t", " ",
      "g", "e", "n", "e", "r", "a", "t", "e", " ",
      "a", "u", "d", "i", "o", " ", "f", "o", "r", " ",
      "t", "h", "i", "s", " ",
      "r", "e", "s", "p", "o", "n", "s", "e", ".">>

(***************************************************************************)
(* Markup: the marker test of text_to_speech and clean_text_for_tts        *)
(* (app/backend/utils/text_utils.py).                                      *)
(***************************************************************************)
\* marker in text
Contains(s, marker) ==
    \E i \in 1..(Len(s) - Len(marker) + 1) :
        SubSeq(s, i, i + Len(marker) - 1) = marker

\* The marker list without the single backquote and the single bracket.
C18_MarkersWithoutBackquoteAndBracket ==
    {<<"$">>, <<"*", "*">>, <<"*">>, <<"_", "_">>, <<"_">>, <<"#">>,
     <<"U+0060", "U+0060", "U+0060">>, <<"!", "[">>}

\* The markers of line 206: $, **, *, __, _, #, three backquotes, one
\* backquote, [ and ![.  The backquote is written "U+0060" here.
FormattingMarkers ==
    {<<"$">>, <<"*", "*">>, <<"*">>, <<"_", "_">>, <<"_">>, <<"#">>,
     <<"U+0060", "U+0060", "U+0060">>, <<"U+0060">>, <<"[">>, <<"!", "[">>}

has_special_formatting(s) ==
    \E marker \in FormattingMarkers : Contains(s, marker)

\* How many characters of s, from position i on, are of the set S in a row.
RunLength(s, i, S) ==
    LET stops == {k \in i..Len(s) : s[k] \notin S}
    IN  IF i > Len(s) THEN 0
        ELSE IF stops = {} THEN Len(s) - i + 1
        ELSE (CHOOSE k \in stops : \A m \in stops : k <= m) - i

\* re.sub(r'^#{1,6}\s+(.*?)$', r'\1.', text) on a text of one line
HeaderRule(s) ==
    LET hashes == RunLength(s, 1, {"#"})
        blanks == RunLength(s, hashes + 1, {" "})
    IN  IF hashes \in 1..6 /\ blanks > 0
        THEN SubSeq(s, hashes + blanks + 1, Len(s)) \o <<".">>
        ELSE s

\* The replacement text of the list rule: the three characters the source
\* file holds in place of a bullet, and a blank.
Bullet == <<"U+00E2", "U+20AC", "U+00A2", " ">>

\* re.sub(r'^\s*[\*\-\+]\s+(.*?)$', r'<bullet> \1', text) on one line
ListRule(s) ==
    LET lead == RunLength(s, 1, {" "})
        blanks == RunLength(s, lead + 2, {" "})
    IN  IF lead < Len(s) /\ s[lead + 1] \in {"*", "-", "+"} /\ blanks > 0
        THEN Bullet \o SubSeq(s, lead + 1 + blanks + 1, Len(s))
        ELSE s

\* The characters the closing replace calls delete (lines 70-77).
IsArtifact(c) == c \in {"\\", "*", "_", "#", "U+0060"}

IsNoArtifact(c) == ~IsArtifact(c)

\* clean_text_for_tts on the texts of this model: one line, at most one "$",
\* no backslash, parenthesis, digit, "-", "+" or ">", and a "*" at the start
\* of the line only when the text holds no other "*".  On these the rules of
\* lines 34-35, 48-67 match nothing, and what the rules of lines 41-44 and
\* 52 leave of their markers the closing replace calls delete.
clean_text_for_tts(s) == SelectSeq(ListRule(HeaderRule(s)), IsNoArtifact)

(***************************************************************************)
(* Voices.  The voice handed to the engine is a name, or the path of the   *)
(* local file of a name: os.path.join(voices_dir, name + ".pt").           *)
(***************************************************************************)
\* app/backend/utils/kokoro_voices.py
AVAILABLE_VOICES ==
    {"af_heart", "af_alloy", "af_aoede", "af_bella", "af_jessica",
     "af_kore", "af_nicole", "af_nova", "af_river", "af_sarah", "af_sky",
     "am_adam", "am_echo", "am_eric", "am_fenrir", "am_liam", "am_michael",
     "am_onyx", "am_puck", "am_santa", "bf_alice", "bf_emma",
     "bf_isabella", "bf_lily", "bm_daniel", "bm_fable", "bm_george",
     "bm_lewis", "jf_alpha", "jf_gongitsune", "jf_nezumi", "jf_tebukuro",
     "jm_kumo", "zf_xiaobei", "zf_xiaoni", "zf_xiaoxiao", "zf_xiaoyi",
     "zm_yunjian", "zm_yunxi", "zm_yunxia", "zm_yunyang", "ef_dora",
     "em_alex", "em_santa", "ff_siwis", "hf_alpha", "hf_beta", "hm_omega",
     "hm_psi", "if_sara", "im_nicola", "pf_dora", "pm_alex", "pm_santa"}

VoiceName(v) == [path |-> FALSE, name |-> v]

local_voice_path(v) == [path |-> TRUE, name |-> v]

NoVoice == VoiceName("none")

\* The fallback voice, whatever voice was asked for.
C19_ResolveAlwaysDefault(v, exists) == VoiceName("af_heart")

\* text_to_speech, lines 212-224
ResolveVoice(v, exists) ==
    IF exists THEN local_voice_path(v)
    ELSE IF v \notin AVAILABLE_VOICES THEN VoiceName("af_heart")
    ELSE VoiceName(v)

(***************************************************************************)
(* Audio.                                                                  *)
(***************************************************************************)
\* np.concatenate over a sequence of arrays
RECURSIVE Concatenate(_)
Concatenate(arrays) ==
    IF arrays = <<>> THEN <<>>
    ELSE Head(arrays) \o Concatenate(Tail(arrays))

\* len(audio): the number of samples of an array
RECURSIVE NumSamples(_)
NumSamples(audio) ==
    IF audio = <<>> THEN 0
    ELSE Head(audio).n + NumSamples(Tail(audio))

\* A silent second counted at the former rate of 24000.
C3_SilentAudio24000 == <<[v |-> 0, n |-> 24000]>>

\* np.zeros(22050)
SilentAudio == <<[v |-> 0, n |-> SilentSamples]>>

\* What the generator of one engine call yields before it ends or raises:
\* y arrays, the j-th holding one sample tagged with the call and with the
\* request that made it.
EngineYield(tier, idx, y) ==
    [j \in 1..y |-> <<[v |-> <<tier, idx, j>>, n |-> 1, req |-> rid]>>]

\* The engine's behaviours for one call: how many arrays it yields, and
\* whether it then raises instead of ending.
EngineOutcomes == [y : 0..MaxYield, raised : BOOLEAN]

(***************************************************************************)
(* Input texts: up to MaxSentences sentences "aa...a." of the lengths of   *)
(* SentenceLengths, joined by one blank or by nothing; and a run-on        *)
(* sentence longer than a chunk, alone or next to one more sentence.       *)
(***************************************************************************)
SentenceLengths == {3, 50, 100}

RunOnLengths == {160}

Separators == {<<>>, <<" ">>}

MakeSentence(n) == [i \in 1..n |-> IF i = n THEN "." ELSE "a"]

RECURSIVE JoinSentences(_, _)
JoinSentences(sep, lens) ==
    IF Len(lens) = 1 THEN MakeSentence(lens[1])
    ELSE MakeSentence(lens[1]) \o sep \o JoinSentences(sep, Tail(lens))

ComposedTexts ==
    {JoinSentences(sep, lens) :
        sep \in Separators,
        lens \in UNION {[1..k -> SentenceLengths] : k \in 1..MaxSentences}}

RunOnTexts ==
    UNION {{MakeSentence(r),
            JoinSentences(<<" ">>, <<r, n>>),
            JoinSentences(<<" ">>, <<n, r>>)} :
              r \in RunOnLengths, n \in SentenceLengths}

InputTexts == ComposedTexts \cup RunOnTexts

(***************************************************************************)
(* Input texts with markup and requested voices: a short sentence, a text  *)
(* of exactly 150 characters and a text of two chunks, each plain and with *)
(* one marker (or a lone "!") written over the characters that follow the  *)
(* first; a header line and a list line.  The voices: the default one,     *)
(* another one of AVAILABLE_VOICES, and one that is not among them.        *)
(***************************************************************************)
PlainTexts ==
    {MakeSentence(3), MakeSentence(ChunkThreshold),
     JoinSentences(<<" ">>, <<100, 100>>)}

Mark(t, marker) ==
    <<t[1]>> \o marker \o SubSeq(t, Len(marker) + 2, Len(t))

HeaderLine == <<"#", " ", "a", "a">>

ListLine == <<"*", " ", "a", "a", ".">>

\* What is written into a plain text: each marker, and a lone "!".
Insertions ==
    {<<"$">>, <<"*", "*">>, <<"*">>, <<"_", "_">>, <<"_">>, <<"#">>,
     <<"U+0060", "U+0060", "U+0060">>, <<"U+0060">>, <<"[">>, <<"!", "[">>,
     <<"!">>}

MarkupTexts ==
    {Mark(t, marker) : t \in PlainTexts, marker \in Insertions}
        \cup {HeaderLine, ListLine}

FrontTexts == PlainTexts \cup MarkupTexts

\* The speeds: the default one and 1.0.
RequestedSpeeds == {DefaultSpeed, 10}

RequestedVoices == {"af_heart", "bm_george", "my_voice"}

(***************************************************************************)
(* The file write and the return.                                          *)
(***************************************************************************)
\* The write returning output_path, the name joined to the upload folder.
C28_WriteAndReturnPath(suffix, audio, rate) ==
    LET name == [id |-> next_uuid, suffix |-> suffix]
    IN  /\ files' = files \cup {[name |-> name, audio |-> audio, rate |-> rate]}
        /\ returned' = [dir |-> "upload_folder", name |-> name]
        /\ next_uuid' = next_uuid + 1
        /\ pc' = "done"

\* output_filename = f"{uuid.uuid4()}<suffix>"; sf.write(...); return
WriteAndReturn(suffix, audio, rate) ==
    LET name == [id |-> next_uuid, suffix |-> suffix]
    IN  /\ files' = files \cup {[name |-> name, audio |-> audio, rate |-> rate]}
        /\ returned' = name
        /\ next_uuid' = next_uuid + 1
        /\ pc' = "done"

\* text_to_speech, lines 324-330
WriteResponse(full_audio) ==
    WriteAndReturn("_response.wav", full_audio, output_sample_rate)

\* The fallback audio written at the former rate of 24000.
C15_WriteFallbackAt24000(full_audio) ==
    WriteAndReturn("_response.wav", full_audio, 24000)

\* _fallback_tts, lines 369-375
WriteFallbackResponse(full_audio) ==
    WriteAndReturn("_response.wav", full_audio, fallback_sample_rate)

\* The apology written under the name of a regular response.
C6_WriteErrorAsResponse(error_audio) ==
    WriteAndReturn("_response.wav", error_audio, error_sample_rate)

\* _fallback_tts, lines 384-388
WriteError(error_audio) ==
    WriteAndReturn("_error_response.wav", error_audio, error_sample_rate)

\* The silence written under the name of the apology.
C16_WriteSilentAsError ==
    WriteAndReturn("_error_response.wav", SilentAudio, silent_sample_rate)

\* _fallback_tts, lines 392-397
WriteSilent ==
    WriteAndReturn("_silent_response.wav", SilentAudio, silent_sample_rate)

\* An exception no handler catches leaves the function.
C2_Uncaught ==
    /\ pc' = "raised"
    /\ UNCHANGED <<files, returned, next_uuid>>

\* _fallback_tts, lines 390-391: except Exception around the whole body
FallbackExcept == WriteSilent

\* return self._fallback_tts(cleaned_text, use_voice, speed)
EnterFallback ==
    /\ pc' = "fb_whole"
    /\ UNCHANGED <<files, returned, next_uuid>>

\* The except of the single-chunk path writing the silent file itself.
C27_SingleExceptWritesSilence == WriteSilent

\* text_to_speech, lines 236-239: except Exception of the single-chunk path
SingleExcept == EnterFallback

LogCall(tier, arg, o) ==
    calls' = Append(calls, [tier |-> tier, text |-> arg, y |-> o.y,
                            raised |-> o.raised, voice |-> use_voice,
                            speed |-> speed])

(***************************************************************************)
(* text_to_speech                                                          *)
(***************************************************************************)
\* The local variables of a request that has not started, the files and
\* the identifiers.
InitRequest ==
    /\ pc = "start"
    /\ use_voice = NoVoice
    /\ clean_called = FALSE
    /\ cleaned_text = <<>>
    /\ planned = FALSE
    /\ text_chunks = <<>>
    /\ futures = <<>>
    /\ collected = {}
    /\ all_audio_chunks = <<>>
    /\ sentences = <<>>
    /\ si = 0
    /\ audio_chunks = <<>>
    /\ calls = <<>>
    /\ files = {}
    /\ returned = NoFile
    /\ next_uuid = 1

NoRequest == [rid |-> 0]

\* None
NoneValue == [kind |-> "None"]

\* MultimodalCorrectionPipeline.run is not running.
NoRun ==
    /\ image_path = NoneValue
    /\ audio_path = NoneValue
    /\ query_text = NoneValue
    /\ enable_tts = FALSE
    /\ run_pc = "idle"
    /\ transcribed_text = NoneValue
    /\ initial_response = NoneValue
    /\ corrected_response = NoneValue
    /\ results = <<>>
    /\ manager_calls = <<>>

\* No HTTP request is being served.
NoRoute ==
    /\ request = NoneValue
    /\ route_pc = "idle"
    /\ response = NoneValue
    /\ route_calls = <<>>

\* One request, text_to_speech(text): plain text, the default voice, no
\* local voice file.
Init ==
    /\ text \in InputTexts
    /\ voice = "af_heart"
    /\ voice_file_exists = FALSE
    /\ speed = DefaultSpeed
    /\ rid = 1
    /\ other = NoRequest
    /\ InitRequest
    /\ NoRun
    /\ NoRoute

\* One request, text_to_speech(text, voice): text with or without markup,
\* any of the voices, with or without a local voice file.
InitFront ==
    /\ text \in FrontTexts
    /\ voice \in RequestedVoices
    /\ voice_file_exists \in BOOLEAN
    /\ speed \in RequestedSpeeds
    /\ rid = 1
    /\ other = NoRequest
    /\ InitRequest
    /\ NoRun
    /\ NoRoute

\* The length test with the threshold on the short side.
C8_IsShortInclusive(s) == Len(s) <= ChunkThreshold

\* len(cleaned_text) < 150
IsShort(s) == Len(s) < ChunkThreshold

\* Lines 205-227: the marker test and the cleaning, the voice, then the
\* branch on the length of the cleaned text.
Begin ==
    /\ pc = "start"
    /\ clean_called' = has_special_formatting(text)
    /\ cleaned_text' = IF has_special_formatting(text)
                       THEN clean_text_for_tts(text)
                       ELSE text
    /\ use_voice' = ResolveVoice(voice, voice_file_exists)
    /\ pc' = IF IsShort(cleaned_text') THEN "single" ELSE "plan"
    /\ UNCHANGED <<env, text, planned, text_chunks, futures, collected,
                   all_audio_chunks, sentences, si, audio_chunks, calls,
                   files, returned, next_uuid>>

\* Lines 228-239 and 324-330: the single-chunk path.
SingleChunk ==
    /\ pc = "single"
    /\ \E o \in EngineOutcomes :
        /\ LogCall("single", cleaned_text, o)
        /\ IF o.raised \/ o.y = 0
           THEN SingleExcept
           ELSE WriteResponse(Concatenate(EngineYield("single", 0, o.y)))
    /\ UNCHANGED <<env, front,
                   text, cleaned_text, planned, text_chunks, futures,
                   collected, all_audio_chunks, sentences, si, audio_chunks>>

\* No engine call has been made yet.
NoOutcome == [y |-> 0, raised |-> FALSE, called |-> FALSE]

\* A submitted chunk no pool thread has taken: the state and the result of
\* its future, and of the thread that will run process_chunk the voice it
\* calls the engine with and what the engine did.
QueuedFuture ==
    [state |-> "queued", result |-> <<>>, voice |-> NoVoice, o |-> NoOutcome]

\* Lines 244-299: the chunk plan, the test for small chunks, the submission
\* of every chunk to the pool.
Plan ==
    /\ pc = "plan"
    /\ planned' = TRUE
    /\ text_chunks' = PlanChunks(cleaned_text)
    /\ IF NotChunkable(text_chunks')
       THEN /\ EnterFallback
            /\ UNCHANGED futures
       ELSE /\ futures' = [i \in 1..Len(text_chunks') |-> QueuedFuture]
            /\ pc' = "pool"
            /\ UNCHANGED <<files, returned, next_uuid>>
    /\ UNCHANGED <<env, front,
                   text, cleaned_text, collected, all_audio_chunks,
                   sentences, si, audio_chunks, calls>>

\* The chunks a pool thread is busy with.
Running == {i \in 1..Len(futures) :
               futures[i].state \in {"running", "returning"}}

\* A pool thread taking a chunk although two are busy.
C13_StartChunkUnbounded(i) ==
    /\ pc = "pool"
    /\ futures[i].state = "queued"
    /\ \A j \in 1..(i - 1) : futures[j].state # "queued"
    /\ futures' = [futures EXCEPT ![i].state = "running",
                                  ![i].voice = use_voice]
    /\ UNCHANGED <<env, front,
                   text, pc, cleaned_text, planned, text_chunks, collected,
                   all_audio_chunks, sentences, si, audio_chunks, calls,
                   files, returned, next_uuid>>

\* A pool whose threads take one chunk each and no further one.
C29_StartChunkOncePerThread(i) ==
    /\ pc = "pool"
    /\ i <= max_workers
    /\ futures[i].state = "queued"
    /\ \A j \in 1..(i - 1) : futures[j].state # "queued"
    /\ Cardinality(Running) < max_workers
    /\ futures' = [futures EXCEPT ![i].state = "running",
                                  ![i].voice = use_voice]
    /\ UNCHANGED <<env, front,
                   text, pc, cleaned_text, planned, text_chunks, collected,
                   all_audio_chunks, sentences, si, audio_chunks, calls,
                   files, returned, next_uuid>>

\* A pool thread takes the oldest queued chunk and enters process_chunk,
\* which calls the engine (line 286); the pool has two threads.
StartChunk(i) ==
    /\ pc = "pool"
    /\ futures[i].state = "queued"
    /\ \A j \in 1..(i - 1) : futures[j].state # "queued"
    /\ Cardinality(Running) < max_workers
    /\ futures' = [futures EXCEPT ![i].state = "running",
                                  ![i].voice = use_voice]
    /\ UNCHANGED <<env, front,
                   text, pc, cleaned_text, planned, text_chunks, collected,
                   all_audio_chunks, sentences, si, audio_chunks, calls,
                   files, returned, next_uuid>>

\* process_chunk, lines 285-288 and 292: the engine call of chunk i ends or
\* raises; what it did is known to the thread that made it.
SynthesizeChunk(i) ==
    /\ pc = "pool"
    /\ futures[i].state = "running"
    /\ \E o \in EngineOutcomes :
        futures' = [futures EXCEPT ![i].state = "returning",
                                   ![i].o = [y |-> o.y, raised |-> o.raised,
                                             called |-> TRUE]]
    /\ UNCHANGED <<env, front,
                   text, pc, cleaned_text, planned, text_chunks, collected,
                   all_audio_chunks, sentences, si, audio_chunks, calls,
                   files, returned, next_uuid>>

\* The value of process_chunk keeping what the engine yielded before it
\* raised.
C11_ProcessChunkKeepsPartial(i, o) == Concatenate(EngineYield("chunk", i, o.y))

\* process_chunk, lines 289-294: the value it returns
ProcessChunk(i, o) ==
    IF ~o.raised /\ o.y > 0
    THEN Concatenate(EngineYield("chunk", i, o.y))
    ELSE <<>>

\* process_chunk returns and its local variables are gone: the future of
\* chunk i is done and holds the value returned.
FinishChunk(i) ==
    /\ pc = "pool"
    /\ futures[i].state = "returning"
    /\ futures' = [futures EXCEPT ![i].state = "done",
                                  ![i].result = ProcessChunk(i, futures[i].o),
                                  ![i].o = NoOutcome]
    /\ UNCHANGED <<env, front,
                   text, pc, cleaned_text, planned, text_chunks, collected,
                   all_audio_chunks, sentences, si, audio_chunks, calls,
                   files, returned, next_uuid>>

\* The loop keeping only the result it collected last.
C12_CollectKeepsLast(i) ==
    /\ pc = "pool"
    /\ futures[i].state = "done"
    /\ i \notin collected
    /\ collected' = collected \cup {i}
    /\ all_audio_chunks' =
          IF Len(futures[i].result) > 0
          THEN <<futures[i].result>>
          ELSE all_audio_chunks
    /\ UNCHANGED <<env, front,
                   text, pc, cleaned_text, planned, text_chunks, futures,
                   sentences, si, audio_chunks, calls, files, returned,
                   next_uuid>>

\* Lines 302-309: one iteration of the loop over as_completed, which yields
\* a finished future not yet yielded.
Collect(i) ==
    /\ pc = "pool"
    /\ futures[i].state = "done"
    /\ i \notin collected
    /\ collected' = collected \cup {i}
    /\ all_audio_chunks' =
          IF Len(futures[i].result) > 0
          THEN Append(all_audio_chunks, futures[i].result)
          ELSE all_audio_chunks
    /\ UNCHANGED <<env, front,
                   text, pc, cleaned_text, planned, text_chunks, futures,
                   sentences, si, audio_chunks, calls, files, returned,
                   next_uuid>>

\* After the loop, falling back as soon as one chunk gave nothing.
C10_AfterPoolAnyEmpty ==
    /\ pc = "pool"
    /\ collected = 1..Len(futures)
    /\ IF Len(all_audio_chunks) < Len(futures)
       THEN EnterFallback
       ELSE WriteResponse(Concatenate(all_audio_chunks))
    /\ UNCHANGED <<env, front,
                   text, cleaned_text, planned, text_chunks, futures,
                   collected, all_audio_chunks, sentences, si, audio_chunks,
                   calls>>

\* Leaving the loop at the first result, the other workers still busy.
C25_AfterPoolNotWaiting ==
    /\ pc = "pool"
    /\ collected # {}
    /\ IF all_audio_chunks = <<>>
       THEN EnterFallback
       ELSE WriteResponse(Concatenate(all_audio_chunks))
    /\ UNCHANGED <<env, front,
                   text, cleaned_text, planned, text_chunks, futures,
                   collected, all_audio_chunks, sentences, si, audio_chunks,
                   calls>>

\* Lines 311-317 and 324-330: after the loop.
AfterPool ==
    /\ pc = "pool"
    /\ collected = 1..Len(futures)
    /\ IF all_audio_chunks = <<>>
       THEN EnterFallback
       ELSE WriteResponse(Concatenate(all_audio_chunks))
    /\ UNCHANGED <<env, front,
                   text, cleaned_text, planned, text_chunks, futures,
                   collected, all_audio_chunks, sentences, si, audio_chunks,
                   calls>>

(***************************************************************************)
(* _fallback_tts                                                           *)
(***************************************************************************)
\* Lines 346-355 (and 369-375, 390-397): the whole text as one call.
FallbackWhole ==
    /\ pc = "fb_whole"
    /\ \E o \in EngineOutcomes :
        /\ LogCall("whole", cleaned_text, o)
        /\ IF o.raised
           THEN /\ FallbackExcept
                /\ UNCHANGED <<sentences, si, audio_chunks>>
           ELSE IF o.y > 0
           THEN /\ audio_chunks' = EngineYield("whole", 0, o.y)
                /\ WriteFallbackResponse(Concatenate(audio_chunks'))
                /\ UNCHANGED <<sentences, si>>
           ELSE /\ sentences' = FallbackSplit(cleaned_text)
                /\ si' = 1
                /\ pc' = "fb_sentence"
                /\ UNCHANGED <<audio_chunks, files, returned, next_uuid>>
    /\ UNCHANGED <<env, front,
                   text, cleaned_text, planned, text_chunks, futures,
                   collected, all_audio_chunks>>

\* The loop over the sentences ending at the first call that raises.
C26_FallbackSentenceStopping ==
    /\ pc = "fb_sentence"
    /\ si <= Len(sentences)
    /\ IF IsBlank(sentences[si])
       THEN /\ si' = si + 1
            /\ UNCHANGED <<audio_chunks, calls>>
       ELSE \E o \in EngineOutcomes :
               /\ LogCall("sentence", sentences[si], o)
               /\ audio_chunks' =
                     audio_chunks \o EngineYield("sentence", si, o.y)
               /\ si' = IF o.raised THEN Len(sentences) + 1 ELSE si + 1
    /\ UNCHANGED <<env, front,
                   text, pc, cleaned_text, planned, text_chunks, futures,
                   collected, all_audio_chunks, sentences, files, returned,
                   next_uuid>>

\* Lines 356-366: one iteration of the loop over the sentences.  The arrays
\* a call yields before it raises stay in audio_chunks.
FallbackSentence ==
    /\ pc = "fb_sentence"
    /\ si <= Len(sentences)
    /\ si' = si + 1
    /\ IF IsBlank(sentences[si])
       THEN UNCHANGED <<audio_chunks, calls>>
       ELSE \E o \in EngineOutcomes :
               /\ LogCall("sentence", sentences[si], o)
               /\ audio_chunks' =
                     audio_chunks \o EngineYield("sentence", si, o.y)
    /\ UNCHANGED <<env, front,
                   text, pc, cleaned_text, planned, text_chunks, futures,
                   collected, all_audio_chunks, sentences, files, returned,
                   next_uuid>>

\* After the loop, going on to the apology whatever was gathered.
C7_AfterSentencesAlwaysApology ==
    /\ pc = "fb_sentence"
    /\ si > Len(sentences)
    /\ pc' = "fb_apology"
    /\ UNCHANGED <<files, returned, next_uuid>>
    /\ UNCHANGED <<env, front,
                   text, cleaned_text, planned, text_chunks, futures,
                   collected, all_audio_chunks, sentences, si, audio_chunks,
                   calls>>

\* Lines 368-376: after the loop.
AfterSentences ==
    /\ pc = "fb_sentence"
    /\ si > Len(sentences)
    /\ IF audio_chunks # <<>>
       THEN WriteFallbackResponse(Concatenate(audio_chunks))
       ELSE /\ pc' = "fb_apology"
            /\ UNCHANGED <<files, returned, next_uuid>>
    /\ UNCHANGED <<env, front,
                   text, cleaned_text, planned, text_chunks, futures,
                   collected, all_audio_chunks, sentences, si, audio_chunks,
                   calls>>

\* Lines 377-397: the apology; np.concatenate([]) raises ValueError.
FallbackApology ==
    /\ pc = "fb_apology"
    /\ \E o \in EngineOutcomes :
        /\ LogCall("apology", ApologyText, o)
        /\ IF o.raised \/ o.y = 0
           THEN FallbackExcept
           ELSE WriteError(Concatenate(EngineYield("apology", 0, o.y)))
    /\ UNCHANGED <<env, front,
                   text, cleaned_text, planned, text_chunks, futures,
                   collected, all_audio_chunks, sentences, si, audio_chunks>>

Next ==
    \/ Begin
    \/ SingleChunk
    \/ Plan
    \/ \E i \in 1..Len(futures) : StartChunk(i)
    \/ \E i \in 1..Len(futures) : SynthesizeChunk(i)
    \/ \E i \in 1..Len(futures) : FinishChunk(i)
    \/ \E i \in 1..Len(futures) : Collect(i)
    \/ AfterPool
    \/ FallbackWhole
    \/ FallbackSentence
    \/ AfterSentences
    \/ FallbackApology

Spec == Init /\ [][Next]_vars

SpecFront == InitFront /\ [][Next]_vars

\* Texts whose sentence split has blank pieces: two sentences, short ones or
\* of 100 characters, followed by a blank; and a text of two blanks.
TailTexts ==
    {JoinSentences(<<" ">>, <<n, n>>) \o <<" ">> : n \in {3, 100}}
    \cup {<<" ", " ">>}

\* One request, text_to_speech(text), on a text that ends in a blank.
InitTail ==
    /\ text \in TailTexts
    /\ voice = "af_heart"
    /\ voice_file_exists = FALSE
    /\ speed = DefaultSpeed
    /\ rid = 1
    /\ other = NoRequest
    /\ InitRequest
    /\ NoRun
    /\ NoRoute

SpecTail == InitTail /\ [][Next]_vars

\* The step Plan told by what it does to pc: the calling thread leaves the
\* planner, for _fallback_tts or for the pool.
PlanEnds == pc = "plan" /\ pc' \in {"fb_whole", "pool"}

\* The other steps of the thread that called text_to_speech, its engine
\* calls among them.
RequestThread ==
    \/ Begin
    \/ SingleChunk
    \/ \E i \in 1..Len(futures) : Collect(i)
    \/ AfterPool
    \/ FallbackWhole
    \/ FallbackSentence
    \/ AfterSentences
    \/ FallbackApology

\* The steps of the threads of the pool, their engine calls among them.
PoolThreads ==
    \E i \in 1..Len(futures) :
        StartChunk(i) \/ SynthesizeChunk(i) \/ FinishChunk(i)

\* The texts of TailTexts, a text of two short sentences and a text of three
\* chunks.
LiveTexts ==
    TailTexts \cup {JoinSentences(<<" ">>, <<3, 3>>),
                    JoinSentences(<<" ">>, <<100, 100, 100>>)}

InitLive ==
    /\ text \in LiveTexts
    /\ voice = "af_heart"
    /\ voice_file_exists = FALSE
    /\ speed = DefaultSpeed
    /\ rid = 1
    /\ other = NoRequest
    /\ InitRequest
    /\ NoRun
    /\ NoRoute

\* One request whose threads keep running: the calling thread takes its next
\* step whenever it has one, a thread of the pool takes a step whenever one
\* of them has one, and an engine call, being a step, ends or raises.
SpecLive ==
    /\ InitLive
    /\ [][Next]_vars
    /\ WF_vars(RequestThread)
    /\ WF_pc(PlanEnds)
    /\ WF_vars(PoolThreads)

(***************************************************************************)
(* Two calls of text_to_speech in flight on one ModelManager, as the       *)
(* threads of the web server make them.  Every variable of a call is local *)
(* to it (text_to_speech and _fallback_tts assign no attribute of self);   *)
(* the calls share the upload folder and the source of identifiers.  The   *)
(* variables of the module are those of the call that takes the next step, *)
(* "other" keeps those of the call that waits.                             *)
(***************************************************************************)
Locals ==
    [rid |-> rid, text |-> text, voice |-> voice,
     voice_file_exists |-> voice_file_exists, speed |-> speed, pc |-> pc,
     cleaned_text |-> cleaned_text, planned |-> planned,
     text_chunks |-> text_chunks, futures |-> futures,
     collected |-> collected, all_audio_chunks |-> all_audio_chunks,
     sentences |-> sentences, si |-> si, audio_chunks |-> audio_chunks,
     calls |-> calls, returned |-> returned, use_voice |-> use_voice,
     clean_called |-> clean_called]

\* The local variables of call r of text_to_speech(t) before its first step.
FreshRequest(r, t) ==
    [rid |-> r, text |-> t, voice |-> "af_heart",
     voice_file_exists |-> FALSE, speed |-> DefaultSpeed, pc |-> "start",
     cleaned_text |-> <<>>, planned |-> FALSE,
     text_chunks |-> <<>>, futures |-> <<>>,
     collected |-> {}, all_audio_chunks |-> <<>>,
     sentences |-> <<>>, si |-> 0, audio_chunks |-> <<>>,
     calls |-> <<>>, returned |-> NoFile, use_voice |-> NoVoice,
     clean_called |-> FALSE]

\* The scheduler turns to the other call; the list named audio_chunks of
\* the call that now runs is kept_audio_chunks.
SwitchWith(kept_audio_chunks) ==
    /\ other # NoRequest
    /\ other' = Locals
    /\ rid' = other.rid
    /\ text' = other.text
    /\ voice' = other.voice
    /\ voice_file_exists' = other.voice_file_exists
    /\ speed' = other.speed
    /\ pc' = other.pc
    /\ cleaned_text' = other.cleaned_text
    /\ planned' = other.planned
    /\ text_chunks' = other.text_chunks
    /\ futures' = other.futures
    /\ collected' = other.collected
    /\ all_audio_chunks' = other.all_audio_chunks
    /\ sentences' = other.sentences
    /\ si' = other.si
    /\ audio_chunks' = kept_audio_chunks
    /\ calls' = other.calls
    /\ returned' = other.returned
    /\ use_voice' = other.use_voice
    /\ clean_called' = other.clean_called
    /\ UNCHANGED <<files, next_uuid, pipeline, route>>

\* audio_chunks kept in one place for both calls.
C17_SwitchSharingAudioChunks == SwitchWith(audio_chunks)

\* Lines 281, 346: the lists are local variables, each call has its own.
Switch == SwitchWith(other.audio_chunks)

\* The texts of the two calls: one goes to the pool, one is short.
FirstTexts == {JoinSentences(<<" ">>, <<100, 100>>)}

SecondTexts == {MakeSentence(3), JoinSentences(<<" ">>, <<3, 3>>)}

InitTwo ==
    /\ text \in FirstTexts
    /\ voice = "af_heart"
    /\ voice_file_exists = FALSE
    /\ speed = DefaultSpeed
    /\ rid = 1
    /\ \E t \in SecondTexts : other = FreshRequest(2, t)
    /\ InitRequest
    /\ NoRun
    /\ NoRoute

NextTwo ==
    \/ Next
    \/ Switch

SpecTwo == InitTwo /\ [][NextTwo]_vars


(***************************************************************************)
(* MultimodalCorrectionPipeline.run                                        *)
(* (app/backend/services/multimodal_pipeline.py).  A text is a record that *)
(* tells where it came from: a string given by the caller, a transcript of *)
(* an audio file, an f-string around another text, or the model's response *)
(* to a prompt, of which only the length matters.  Each call of the        *)
(* ModelManager may raise, and run catches nothing; text_to_speech returns *)
(* the name of a file.                                                     *)
(***************************************************************************)
SummaryThreshold == 800

ResponseLengths == {0, SummaryThreshold, SummaryThreshold + 1}

Str(id) == [kind |-> "str", id |-> id]

\* "if value:" for None, the empty string and other strings
Truthy(value) == value # NoneValue /\ value # Str("")

\* f"Analyze this image based on: {transcribed_text}"
CombinedQuery(t) == [kind |-> "combined_query", about |-> t]

\* f"No image provided. Analyzing text only: {transcribed_text}"
NoImageResponse(t) == [kind |-> "no_image", about |-> t]

\* correction_prompt, lines 36-42
CorrectionPrompt(r) == [kind |-> "correction_prompt", about |-> r]

\* summary_prompt, line 50
SummaryPrompt(r) == [kind |-> "summary_prompt", about |-> r]

\* What the model may answer to a prompt.
ResponsesTo(prompt) ==
    {[kind |-> "response", to |-> prompt, len |-> n] : n \in ResponseLengths}

\* What transcribe_audio may return for a file.
Transcripts(path) == {[kind |-> "transcript", of |-> path]}

\* What text_to_speech may return.
SpeechFiles ==
    {[id |-> 1, suffix |-> x] :
        x \in {"_response.wav", "_error_response.wav",
               "_silent_response.wav"}}

LogManagerCall(fn, arg, raised) ==
    manager_calls' =
        Append(manager_calls, [fn |-> fn, arg |-> arg, raised |-> raised])

\* results[key] = value
SetResult(key, value) == results' = (key :> value) @@ results

\* The exception of a ModelManager call leaves run.
RunRaises ==
    /\ run_pc' = "raised"
    /\ UNCHANGED <<transcribed_text, initial_response, corrected_response,
                   results>>

InitRun ==
    /\ image_path \in {NoneValue, Str("image.png")}
    /\ audio_path \in {NoneValue, Str("clip.wav")}
    /\ query_text \in {NoneValue, Str(""), Str("query")}
    /\ enable_tts \in BOOLEAN
    /\ run_pc = "step1"
    /\ transcribed_text = NoneValue
    /\ initial_response = NoneValue
    /\ corrected_response = NoneValue
    /\ results = <<>>
    /\ manager_calls = <<>>
    /\ text = <<>>
    /\ voice = "af_heart"
    /\ voice_file_exists = FALSE
    /\ speed = DefaultSpeed
    /\ rid = 1
    /\ other = NoRequest
    /\ InitRequest
    /\ NoRoute

\* Lines 19-24: step 1.
Transcribe ==
    /\ run_pc = "step1"
    /\ IF Truthy(audio_path)
       THEN \/ /\ LogManagerCall("transcribe_audio", audio_path, TRUE)
               /\ RunRaises
            \/ \E t \in Transcripts(audio_path) :
                  /\ LogManagerCall("transcribe_audio", audio_path, FALSE)
                  /\ transcribed_text' = t
                  /\ SetResult("transcribed_text", t)
                  /\ run_pc' = "step2"
                  /\ UNCHANGED <<initial_response, corrected_response>>
       ELSE /\ transcribed_text' =
                  IF Truthy(query_text) THEN query_text ELSE Str("")
            /\ run_pc' = "step2"
            /\ UNCHANGED <<initial_response, corrected_response, results,
                           manager_calls>>
    /\ UNCHANGED <<image_path, audio_path, query_text, enable_tts, speech,
                   route>>

\* Lines 26-33: step 2.
Analyze ==
    /\ run_pc = "step2"
    /\ IF Truthy(image_path)
       THEN LET query == [image |-> image_path,
                          query |-> CombinedQuery(transcribed_text)]
            IN  \/ /\ LogManagerCall("process_image_and_query", query, TRUE)
                   /\ RunRaises
                \/ \E r \in ResponsesTo(query) :
                      /\ LogManagerCall("process_image_and_query", query,
                                        FALSE)
                      /\ initial_response' = r
                      /\ SetResult("initial_analysis", r)
                      /\ run_pc' = "step3"
                      /\ UNCHANGED <<transcribed_text, corrected_response>>
       ELSE /\ initial_response' = NoImageResponse(transcribed_text)
            /\ SetResult("initial_analysis", initial_response')
            /\ run_pc' = "step3"
            /\ UNCHANGED <<transcribed_text, corrected_response,
                           manager_calls>>
    /\ UNCHANGED <<image_path, audio_path, query_text, enable_tts, speech,
                   route>>

\* Lines 35-44: step 3.
Correct ==
    /\ run_pc = "step3"
    /\ LET correction_prompt == CorrectionPrompt(initial_response)
       IN  \/ /\ LogManagerCall("generate_content", correction_prompt, TRUE)
              /\ RunRaises
           \/ \E r \in ResponsesTo(correction_prompt) :
                 /\ LogManagerCall("generate_content", correction_prompt,
                                   FALSE)
                 /\ corrected_response' = r
                 /\ SetResult("corrected_analysis", r)
                 /\ run_pc' = "step4"
                 /\ UNCHANGED <<transcribed_text, initial_response>>
    /\ UNCHANGED <<image_path, audio_path, query_text, enable_tts, speech,
                   route>>

\* Lines 47-54 with a response of exactly 800 characters summarized too.
C30_SummarizeIfFromThreshold(flag) ==
    /\ run_pc = "step4"
    /\ IF ~flag
       THEN /\ run_pc' = "return"
            /\ UNCHANGED <<corrected_response, results, manager_calls>>
       ELSE IF corrected_response.len >= SummaryThreshold
       THEN LET summary_prompt == SummaryPrompt(corrected_response)
            IN  \/ /\ LogManagerCall("generate_content", summary_prompt, TRUE)
                   /\ RunRaises
                \/ \E r \in ResponsesTo(summary_prompt) :
                      /\ LogManagerCall("generate_content", summary_prompt,
                                        FALSE)
                      /\ corrected_response' = r
                      /\ SetResult("summary_used", TRUE)
                      /\ run_pc' = "speak"
       ELSE /\ SetResult("summary_used", FALSE)
            /\ run_pc' = "speak"
            /\ UNCHANGED <<corrected_response, manager_calls>>
    /\ UNCHANGED <<transcribed_text, initial_response>>
    /\ UNCHANGED <<image_path, audio_path, query_text, enable_tts, speech,
                   route>>

\* Lines 47-54 under the given flag.
SummarizeIf(flag) ==
    /\ run_pc = "step4"
    /\ IF ~flag
       THEN /\ run_pc' = "return"
            /\ UNCHANGED <<corrected_response, results, manager_calls>>
       ELSE IF corrected_response.len > SummaryThreshold
       THEN LET summary_prompt == SummaryPrompt(corrected_response)
            IN  \/ /\ LogManagerCall("generate_content", summary_prompt, TRUE)
                   /\ RunRaises
                \/ \E r \in ResponsesTo(summary_prompt) :
                      /\ LogManagerCall("generate_content", summary_prompt,
                                        FALSE)
                      /\ corrected_response' = r
                      /\ SetResult("summary_used", TRUE)
                      /\ run_pc' = "speak"
       ELSE /\ SetResult("summary_used", FALSE)
            /\ run_pc' = "speak"
            /\ UNCHANGED <<corrected_response, manager_calls>>
    /\ UNCHANGED <<transcribed_text, initial_response>>
    /\ UNCHANGED <<image_path, audio_path, query_text, enable_tts, speech,
                   route>>

\* Step 4 entered whatever enable_tts says.
C20_SummarizeIgnoringFlag == SummarizeIf(TRUE)

\* Lines 47-54: "if enable_tts:" and the summary of a long response.
Summarize == SummarizeIf(enable_tts)

\* Lines 56-57: text_to_speech(corrected_response).
Speak ==
    /\ run_pc = "speak"
    /\ \E audio_file \in SpeechFiles :
          /\ LogManagerCall("text_to_speech", corrected_response, FALSE)
          /\ SetResult("tts_audio", audio_file)
    /\ run_pc' = "return"
    /\ UNCHANGED <<transcribed_text, initial_response, corrected_response>>
    /\ UNCHANGED <<image_path, audio_path, query_text, enable_tts, speech,
                   route>>

\* Line 59: return results
Return ==
    /\ run_pc = "return"
    /\ run_pc' = "returned"
    /\ UNCHANGED <<transcribed_text, initial_response, corrected_response,
                   results, manager_calls>>
    /\ UNCHANGED <<image_path, audio_path, query_text, enable_tts, speech,
                   route>>

NextRun ==
    \/ Transcribe
    \/ Analyze
    \/ Correct
    \/ Summarize
    \/ Speak
    \/ Return

SpecRun == InitRun /\ [][NextRun]_vars

(***************************************************************************)
(* Vocabulary of the properties.                                           *)
(***************************************************************************)
Done == pc = "done"

CallsOf(tier) == {i \in 1..Len(calls) : calls[i].tier = tier}

\* The request went through the pool and wrote its own file (lines 316-330).
WroteFromPool == Done /\ futures # <<>> /\ all_audio_chunks # <<>>

\* _fallback_tts has been entered.
FallbackInvoked ==
    \/ pc \in {"fb_whole", "fb_sentence", "fb_apology"}
    \/ CallsOf("whole") # {}

\* A call of the request's own thread failed: it raised, or it yielded no audio.
CallFailed(c) == c.raised \/ c.y = 0

\* Every engine call made so far failed; a chunk's call failed exactly when
\* process_chunk returned the empty array.
EveryCallFailed ==
    /\ \A i \in 1..Len(calls) : CallFailed(calls[i])
    /\ \A i \in 1..Len(futures) : futures[i].result = <<>>

\* Every engine call made so far raised.
EveryCallRaised ==
    /\ \A i \in 1..Len(calls) : calls[i].raised
    /\ \A i \in 1..Len(futures) : futures[i].result = <<>>

\* The per-chunk results in chunk order, empty ones contributing nothing.
ResultsInChunkOrder ==
    Concatenate([i \in 1..Len(futures) |-> futures[i].result])

(***************************************************************************)
(* C1: in the parallel path the audio written is the concatenation of the  *)
(* non-empty per-chunk results in original chunk order, whatever the order *)
(* in which the workers complete.                                          *)
(***************************************************************************)
C1_ChunkOrderKept ==
    WroteFromPool => \A f \in files : f.audio = ResultsInChunkOrder

(***************************************************************************)
(* C2: whatever the engine does on each call, no exception leaves          *)
(* text_to_speech or _fallback_tts, and what a finished request returns is *)
(* the name of a file it wrote.                                            *)
(***************************************************************************)
C2_NeverRaises ==
    /\ pc # "raised"
    /\ Done => /\ returned # NoFile
               /\ \E f \in files : f.name = returned

C2_Witness ==
    /\ Done
    /\ \E i \in CallsOf("single") : calls[i].raised
    /\ \E i \in CallsOf("whole") : ~calls[i].raised /\ calls[i].y = 0
    /\ \E i \in CallsOf("sentence") : calls[i].raised
    /\ \E i \in CallsOf("apology") : calls[i].raised
    /\ returned # NoFile

(***************************************************************************)
(* C3, as stated: if every engine call fails (raises, or yields no audio), *)
(* the request writes 22050 zero samples at rate 22050 to                  *)
(* <uuid>_silent_response.wav and returns that name.                       *)
(***************************************************************************)
IsTheSilentFile(f) ==
    /\ f.name.suffix = "_silent_response.wav"
    /\ f.audio = <<[v |-> 0, n |-> 22050]>>
    /\ f.rate = 22050
    /\ returned = f.name

C3_AllFailGivesSilence ==
    (Done /\ EveryCallFailed) =>
        /\ Cardinality(files) = 1
        /\ \A f \in files : IsTheSilentFile(f)

(***************************************************************************)
(* C3, amended: if every engine call fails and no sentence call of the     *)
(* sentence-by-sentence tier yields audio before it raises, the request    *)
(* writes 22050 zero samples at rate 22050 to <uuid>_silent_response.wav   *)
(* and returns that name, for every input text.                            *)
(***************************************************************************)
NoSentenceAudio == \A i \in CallsOf("sentence") : calls[i].y = 0

C3_NoAudioGivesSilence ==
    (Done /\ EveryCallFailed /\ NoSentenceAudio) =>
        /\ Cardinality(files) = 1
        /\ \A f \in files : IsTheSilentFile(f)

C3_Witness ==
    /\ Done /\ EveryCallFailed /\ NoSentenceAudio
    /\ Len(cleaned_text) >= 150
    /\ futures # <<>>
    /\ CallsOf("sentence") # {}
    /\ \E i \in CallsOf("apology") : ~calls[i].raised
    /\ \E f \in files : IsTheSilentFile(f)

(***************************************************************************)
(* C4: when the engine raises on every call for a cleaned text of at least *)
(* 150 characters, a failed whole-text call is followed by an attempt of   *)
(* the sentence-by-sentence tier, and that tier producing no audio is      *)
(* followed by the apology call, before the silent file is written.        *)
(***************************************************************************)
C4_FailureLeadsToNextTier ==
    (Done /\ Len(cleaned_text) >= 150 /\ EveryCallRaised
          /\ CallsOf("whole") # {}) =>
        /\ CallsOf("sentence") # {}
        /\ CallsOf("apology") # {}

(***************************************************************************)
(* C5: the silent waveform is written only after the apology utterance was *)
(* attempted and failed.                                                   *)
(***************************************************************************)
C5_SilenceOnlyAfterApology ==
    (\E f \in files : f.name.suffix = "_silent_response.wav") =>
        \E i \in CallsOf("apology") : CallFailed(calls[i])

(***************************************************************************)
(* C6: in _fallback_tts, when the whole-text call yields no audio and no   *)
(* sentence yields audio, the next engine call is made with the fixed      *)
(* apology sentence, and if that call yields audio exactly that audio is   *)
(* written to <uuid>_error_response.wav, whose name is returned.           *)
(***************************************************************************)
WholeYieldedNothing ==
    \E i \in CallsOf("whole") : ~calls[i].raised /\ calls[i].y = 0

SentencesDone == pc \in {"fb_apology", "done"}

ApologySucceeded(c) == c.tier = "apology" /\ ~c.raised /\ c.y > 0

C6_ApologyAfterNoAudio ==
    (WholeYieldedNothing /\ SentencesDone /\ audio_chunks = <<>>) =>
        \/ pc = "fb_apology"
        \/ /\ Done
           /\ LET c == calls[Len(calls)]
              IN  /\ c.tier = "apology"
                  /\ c.text = ApologyText
                  /\ Cardinality(CallsOf("apology")) = 1
                  /\ ApologySucceeded(c) =>
                        files = {[name |-> returned,
                                  audio |-> Concatenate(
                                      EngineYield("apology", 0, c.y)),
                                  rate |-> 22050]}
                  /\ ApologySucceeded(c) =>
                        returned.suffix = "_error_response.wav"

C6_Witness ==
    /\ Done
    /\ WholeYieldedNothing
    /\ CallsOf("sentence") # {}
    /\ audio_chunks = <<>>
    /\ ApologySucceeded(calls[Len(calls)])
    /\ returned.suffix = "_error_response.wav"

(***************************************************************************)
(* C7: in _fallback_tts a tier is attempted only after the previous tier   *)
(* was attempted and produced no audio: sentence calls come only after a   *)
(* whole-text call that yielded nothing, the apology call only after every *)
(* non-blank sentence was tried and none yielded audio, and a whole-text   *)
(* call that yields audio is the last engine call of the request.          *)
(***************************************************************************)
C7_TiersInOrder ==
    /\ \A i \in CallsOf("sentence") :
          \E j \in 1..(i - 1) :
              /\ calls[j].tier = "whole"
              /\ ~calls[j].raised /\ calls[j].y = 0
    /\ \A i \in CallsOf("apology") :
          /\ \E j \in 1..(i - 1) :
                /\ calls[j].tier = "whole"
                /\ ~calls[j].raised /\ calls[j].y = 0
          /\ \A j \in CallsOf("sentence") : j < i /\ calls[j].y = 0
          /\ \A k \in 1..Len(sentences) :
                ~IsBlank(sentences[k]) =>
                    \E j \in CallsOf("sentence") :
                        j < i /\ calls[j].text = sentences[k]
    /\ \A i \in CallsOf("whole") : calls[i].y > 0 => i = Len(calls)
    /\ Cardinality(CallsOf("whole")) <= 1

C7_Witness ==
    /\ Done
    /\ Cardinality(CallsOf("sentence")) >= 2
    /\ CallsOf("apology") # {}

(***************************************************************************)
(* C8: a cleaned text shorter than 150 characters goes to one engine call  *)
(* with the whole cleaned text, with no chunk plan and no pool, and when   *)
(* that call succeeds one file <uuid>_response.wav holding its audio is    *)
(* written and returned; for a cleaned text of 150 characters or more the  *)
(* chunk planner runs before any engine call.                              *)
(***************************************************************************)
SingleSucceeded(c) == c.tier = "single" /\ ~c.raised /\ c.y > 0

C8_LengthBranch ==
    pc # "start" =>
        IF Len(cleaned_text) < 150
        THEN /\ ~planned /\ text_chunks = <<>> /\ futures = <<>>
             /\ pc # "single" =>
                   /\ calls[1].tier = "single"
                   /\ calls[1].text = cleaned_text
                   /\ CallsOf("single") = {1}
                   /\ SingleSucceeded(calls[1]) =>
                         /\ Done /\ Len(calls) = 1 /\ sentences = <<>>
                         /\ returned.suffix = "_response.wav"
                         /\ files = {[name |-> returned,
                                      audio |-> Concatenate(
                                          EngineYield("single", 0, calls[1].y)),
                                      rate |-> 22050]}
        ELSE /\ CallsOf("single") = {}
             /\ pc # "single"
             /\ (calls # <<>> \/ \E i \in 1..Len(futures) :
                                    futures[i].state # "queued") => planned

C8_Witness ==
    /\ Done
    /\ Len(cleaned_text) < 150
    /\ Len(FallbackSplit(cleaned_text)) > 1
    /\ Len(calls) = 1
    /\ SingleSucceeded(calls[1])
    /\ returned.suffix = "_response.wav"

(***************************************************************************)
(* C9: every chunk of the chunk plan has at most 150 characters, unless it *)
(* consists of a single sentence that is itself longer than 150            *)
(* characters.                                                             *)
(***************************************************************************)
IsSentenceOf(chunk, s) ==
    \E k \in 1..Len(SplitSentences(s)) : SplitSentences(s)[k] = chunk

C9_ChunkWithinBound ==
    \A i \in 1..Len(text_chunks) :
        \/ Len(text_chunks[i]) <= 150
        \/ IsSentenceOf(text_chunks[i], cleaned_text)

(***************************************************************************)
(* C10: in the parallel path, once every chunk call has finished,          *)
(* _fallback_tts is invoked if and only if every chunk produced an empty   *)
(* result; when some chunk produced audio no fallback tier runs and one    *)
(* <uuid>_response.wav is written from the chunk audio.                    *)
(***************************************************************************)
NonEmptyResults ==
    {i \in 1..Len(futures) : futures[i].result # <<>>}

C10_FallbackIffAllEmpty ==
    (futures # <<>> /\ pc # "pool") =>
        /\ FallbackInvoked <=> NonEmptyResults = {}
        /\ NonEmptyResults # {} =>
              /\ Done /\ calls = <<>>
              /\ returned.suffix = "_response.wav"
              /\ files = {[name |-> returned,
                           audio |-> Concatenate(all_audio_chunks),
                           rate |-> 22050]}
              /\ Len(all_audio_chunks) = Cardinality(NonEmptyResults)
              /\ \A i \in NonEmptyResults :
                    \E k \in 1..Len(all_audio_chunks) :
                        all_audio_chunks[k] = futures[i].result

C10_Witness ==
    /\ Done
    /\ Len(futures) >= 3
    /\ Cardinality(NonEmptyResults) = 2
    /\ ~FallbackInvoked
    /\ returned.suffix = "_response.wav"

(***************************************************************************)
(* C11: in the parallel path an engine call that raises or yields no audio *)
(* makes process_chunk return an empty result for its own chunk and        *)
(* touches nothing else: a call that succeeds returns its own audio, the   *)
(* futures of the other chunks and the audio collected so far stay as they *)
(* are, every chunk of the plan is submitted, and once the pool is left    *)
(* every chunk has run to its end and every non-empty result is part of    *)
(* the audio written, under every interleaving of the two workers.         *)
(***************************************************************************)
OutcomeFailed(o) == o.raised \/ o.y = 0

\* process_chunk of chunk i returns in this step.
Returns(i) ==
    /\ pc = "pool" /\ pc' = "pool"
    /\ i \in 1..Len(futures)
    /\ futures[i].state = "returning"
    /\ futures'[i].state = "done"

ChunkFailureStaysLocal ==
    \A i \in 1..Len(futures) :
        Returns(i) =>
            /\ OutcomeFailed(futures[i].o) => futures'[i].result = <<>>
            /\ ~OutcomeFailed(futures[i].o) =>
                  futures'[i].result =
                      Concatenate(EngineYield("chunk", i, futures[i].o.y))
            /\ \A j \in 1..Len(futures) : j # i => futures'[j] = futures[j]
            /\ all_audio_chunks' = all_audio_chunks
            /\ collected' = collected

EveryChunkServed ==
    /\ futures # <<>> => Len(futures) = Len(text_chunks)
    /\ (futures # <<>> /\ pc # "pool") =>
          \A i \in 1..Len(futures) :
              /\ futures[i].state = "done"
              /\ futures[i].result # <<>> =>
                    \E f \in files : \E k \in 1..Len(all_audio_chunks) :
                        /\ f.name = returned
                        /\ f.audio = Concatenate(all_audio_chunks)
                        /\ all_audio_chunks[k] = futures[i].result
                        /\ \A m \in 1..Len(all_audio_chunks) :
                              all_audio_chunks[m] = futures[i].result => m = k

C11_ChunkFailureIsolated ==
    [][ChunkFailureStaysLocal]_vars /\ []EveryChunkServed

\* A chunk failed while the other chunks of the plan were synthesized and
\* their audio was written.
C11_Witness ==
    /\ WroteFromPool
    /\ Len(futures) >= 3
    /\ \E i \in 1..Len(futures) :
          /\ futures[i].result = <<>>
          /\ \A j \in 1..Len(futures) : j # i => futures[j].result # <<>>

(***************************************************************************)
(* C12: when a cleaned text of at least 150 characters is written from the *)
(* pool, the number of samples in the file is the sum of the sample counts *)
(* of the chunk results, a failed chunk counting zero, and the samples of  *)
(* the file are exactly the samples of the results: none added, none lost, *)
(* none twice.                                                             *)
(***************************************************************************)
RECURSIVE SumOfResults(_)
SumOfResults(i) ==
    IF i = 0 THEN 0
    ELSE NumSamples(futures[i].result) + SumOfResults(i - 1)

SamplesOf(audio) == {audio[k] : k \in 1..Len(audio)}

C12_SamplesConserved ==
    WroteFromPool =>
        /\ Len(cleaned_text) >= 150
        /\ \E f \in files : f.name = returned
        /\ \A f \in files :
              /\ NumSamples(f.audio) = SumOfResults(Len(futures))
              /\ SamplesOf(f.audio) =
                    UNION {SamplesOf(futures[i].result) :
                              i \in 1..Len(futures)}
              /\ \A k, m \in 1..Len(f.audio) :
                    f.audio[k] = f.audio[m] => k = m

\* Two chunks gave audio and one failed; the file holds the samples of the
\* two.
C12_Witness ==
    /\ WroteFromPool
    /\ \E i \in 1..Len(futures) : futures[i].result = <<>>
    /\ SumOfResults(Len(futures)) >= 2
    /\ \E f \in files : NumSamples(f.audio) = SumOfResults(Len(futures))

(***************************************************************************)
(* C13: within one request at most 2 chunk synthesis calls are in progress *)
(* at any moment, however many chunks the plan holds.                      *)
(***************************************************************************)
InProgress == {i \in 1..Len(futures) : futures[i].state = "running"}

C13_AtMostTwoInProgress ==
    /\ Cardinality(InProgress) <= 2
    /\ Cardinality(Running) <= 2

\* Two calls are in progress and a third chunk waits for a thread.
C13_Witness ==
    /\ pc = "pool"
    /\ Len(futures) >= 3
    /\ Cardinality(InProgress) = 2
    /\ \E i \in 1..Len(futures) : futures[i].state = "queued"

(***************************************************************************)
(* C14: for a cleaned text of at least 150 characters, if the chunk plan   *)
(* holds exactly one chunk or a chunk shorter than 5 characters, no chunk  *)
(* is submitted to the pool and _fallback_tts is called with the whole     *)
(* cleaned text; otherwise every chunk of the plan is submitted exactly    *)
(* once.                                                                   *)
(***************************************************************************)
PlanIsDegenerate ==
    \/ Len(text_chunks) = 1
    \/ \E i \in 1..Len(text_chunks) : Len(text_chunks[i]) < 5

C14_DegeneratePlanFallsBack ==
    planned =>
        /\ Len(cleaned_text) >= 150
        /\ PlanIsDegenerate =>
              /\ futures = <<>>
              /\ FallbackInvoked \/ Done
              /\ calls # <<>> =>
                    /\ calls[1].tier = "whole"
                    /\ calls[1].text = cleaned_text
        /\ ~PlanIsDegenerate =>
              /\ Len(futures) = Len(text_chunks)
              /\ pc # "pool" =>
                    \A i \in 1..Len(futures) : futures[i].state = "done"

\* A plan of two chunks, one of them shorter than 5 characters, went to
\* _fallback_tts with the whole cleaned text and nothing was submitted.
C14_Witness ==
    /\ planned
    /\ Len(text_chunks) >= 2
    /\ \E i \in 1..Len(text_chunks) : Len(text_chunks[i]) < 5
    /\ futures = <<>>
    /\ calls # <<>> /\ calls[1].tier = "whole" /\ calls[1].text = cleaned_text

\* A plan of three chunks, each submitted.
C14_WitnessSubmitted ==
    /\ planned
    /\ Len(text_chunks) = 3
    /\ Len(futures) = 3
    /\ pc = "pool"

(***************************************************************************)
(* C15: every file written by text_to_speech or _fallback_tts, on the      *)
(* single-chunk path, the pool path, the whole-text tier, the sentence     *)
(* tier, the apology and the silence, is written with sample rate 22050.   *)
(***************************************************************************)
C15_RateIs22050 == \A f \in files : f.rate = 22050

\* The sentence tier wrote what it gathered, at 22050.
C15_Witness ==
    /\ Done
    /\ CallsOf("sentence") # {}
    /\ audio_chunks # <<>>
    /\ \E f \in files :
          /\ f.name = returned
          /\ f.audio = Concatenate(audio_chunks)
          /\ f.rate = 22050

(***************************************************************************)
(* C16: the suffix of the returned name tells what the file holds:         *)
(* _silent_response.wav exactly for the second of silence,                 *)
(* _error_response.wav exactly for the audio of the apology call, and      *)
(* _response.wav exactly for audio of engine calls on the request's own    *)
(* text; the part before the suffix is an identifier freshly drawn.        *)
(***************************************************************************)
\* The samples of the engine carry their request, the zeros of np.zeros
\* carry none.
IsEngineAudio(audio) ==
    /\ audio # <<>>
    /\ \A k \in 1..Len(audio) :
          "req" \in DOMAIN audio[k] /\ audio[k].req = rid

TiersOf(audio) == {audio[k].v[1] : k \in 1..Len(audio)}

IsApologyAudio(audio) ==
    IsEngineAudio(audio) /\ TiersOf(audio) = {"apology"}

IsOwnTextAudio(audio) ==
    /\ IsEngineAudio(audio)
    /\ TiersOf(audio) \subseteq {"single", "chunk", "whole", "sentence"}

IsSilence(audio) ==
    /\ Len(audio) = 1
    /\ DOMAIN audio[1] = {"v", "n"}
    /\ audio[1].v = 0 /\ audio[1].n = 22050

C16_SuffixTellsContent ==
    /\ \A f \in files :
          /\ f.name.suffix \in {"_silent_response.wav", "_error_response.wav",
                                "_response.wav"}
          /\ f.name.suffix = "_silent_response.wav" <=> IsSilence(f.audio)
          /\ f.name.suffix = "_error_response.wav" <=> IsApologyAudio(f.audio)
          /\ f.name.suffix = "_response.wav" <=> IsOwnTextAudio(f.audio)
          /\ f.name.id \in 1..(next_uuid - 1)
          /\ \A g \in files : g.name.id = f.name.id => g = f
    /\ Done => \E f \in files : f.name = returned

\* The silence was written, under the name that says so.
C16_Witness ==
    /\ Done
    /\ returned.suffix = "_silent_response.wav"
    /\ \E f \in files : f.name = returned /\ IsSilence(f.audio)

\* The apology was written, under the name that says so.
C16_WitnessApology ==
    /\ Done
    /\ returned.suffix = "_error_response.wav"
    /\ \E f \in files : f.name = returned /\ IsApologyAudio(f.audio)

(***************************************************************************)
(* C18 as stated: text_to_speech calls clean_text_for_tts if and only if   *)
(* the input text contains one of the markers $, **, *, __, _, #, a code   *)
(* fence or link syntax; a text with none of them reaches the engine and   *)
(* the length check unchanged.                                             *)
(***************************************************************************)
\* [label](target)
HasLinkSyntax(s) ==
    \E i, j, k \in 1..Len(s) :
        /\ i < j /\ j + 1 < k
        /\ s[i] = "[" /\ s[j] = "]" /\ s[j + 1] = "(" /\ s[k] = ")"

CodeFence == <<"U+0060", "U+0060", "U+0060">>

HasListedMarker(s) ==
    \/ \E marker \in {<<"$">>, <<"*", "*">>, <<"*">>, <<"_", "_">>, <<"_">>,
                      <<"#">>, CodeFence} : Contains(s, marker)
    \/ HasLinkSyntax(s)

\* What the engine and the length check were given is the input text.
PassedUnchanged ==
    /\ cleaned_text = text
    /\ planned => Len(text) >= 150
    /\ CallsOf("single") # {} => Len(text) < 150
    /\ \A i \in CallsOf("single") \cup CallsOf("whole") : calls[i].text = text

C18_CleanIffListedMarker ==
    pc # "start" =>
        /\ clean_called <=> HasListedMarker(text)
        /\ ~HasListedMarker(text) => PassedUnchanged

(***************************************************************************)
(* C18, amended: text_to_speech calls clean_text_for_tts if and only if    *)
(* the input text contains one of the characters $, *, _, #, backquote or  *)
(* [ (every marker of line 206 contains one of them); a text with none of  *)
(* them reaches the engine and the length check unchanged.                 *)
(***************************************************************************)
HasMarkerCharacter(s) ==
    \E k \in 1..Len(s) : s[k] \in {"$", "*", "_", "#", "U+0060", "["}

C18_CleanIffMarkerCharacter ==
    pc # "start" =>
        /\ clean_called <=> HasMarkerCharacter(text)
        /\ ~HasMarkerCharacter(text) => ~clean_called /\ PassedUnchanged

\* A text of 150 characters with one "*" was cleaned to 149 characters and
\* went down the single-chunk path; the engine got the cleaned text.
C18_Witness ==
    /\ Len(text) = 150
    /\ Contains(text, <<"*">>)
    /\ clean_called
    /\ Len(cleaned_text) = 149
    /\ \E i \in CallsOf("single") : calls[i].text = cleaned_text

\* A text with a lone "!" and no marker went to the engine as it was.
C18_WitnessUnchanged ==
    /\ Contains(text, <<"!">>)
    /\ ~clean_called
    /\ \E i \in CallsOf("single") : calls[i].text = text

(***************************************************************************)
(* C19: the voice is resolved once: the path of the local voice file if it *)
(* exists for the requested identifier, else af_heart if the identifier is *)
(* not in AVAILABLE_VOICES, else the identifier as given.  An unknown      *)
(* voice causes no error, and every engine call of the request, in the     *)
(* single-chunk path, the pool and all fallback tiers, is made with the    *)
(* resolved voice.                                                         *)
(***************************************************************************)
ResolvedAsClaimed ==
    /\ voice_file_exists => use_voice = [path |-> TRUE, name |-> voice]
    /\ (~voice_file_exists /\ voice \notin AVAILABLE_VOICES) =>
          use_voice = [path |-> FALSE, name |-> "af_heart"]
    /\ (~voice_file_exists /\ voice \in AVAILABLE_VOICES) =>
          use_voice = [path |-> FALSE, name |-> voice]

C19_VoiceResolved ==
    pc # "start" =>
        /\ ResolvedAsClaimed
        /\ \A i \in 1..Len(calls) : calls[i].voice = use_voice
        /\ \A i \in 1..Len(futures) :
              futures[i].state # "queued" => futures[i].voice = use_voice
        /\ pc \in {"single", "plan", "pool", "fb_whole", "fb_sentence",
                   "fb_apology", "done"}
        /\ Done => \E f \in files : f.name = returned

\* An unknown voice without a local file: the pool and the three fallback
\* tiers all called the engine with af_heart, and a file was returned.
C19_Witness ==
    /\ Done
    /\ voice = "my_voice" /\ ~voice_file_exists
    /\ use_voice = [path |-> FALSE, name |-> "af_heart"]
    /\ futures # <<>>
    /\ CallsOf("whole") # {} /\ CallsOf("sentence") # {}
    /\ CallsOf("apology") # {}
    /\ \E f \in files : f.name = returned

\* A known voice with a local file: the calls were made with the path.
C19_WitnessLocalFile ==
    /\ Done
    /\ voice = "bm_george" /\ voice_file_exists
    /\ futures # <<>>
    /\ \A i \in 1..Len(futures) :
          futures[i].voice = [path |-> TRUE, name |-> "bm_george"]

(***************************************************************************)
(* C17: under every interleaving of two concurrent text_to_speech requests *)
(* on one ModelManager, the two requests write to different filenames,     *)
(* each file holds only audio of engine calls made for the request that    *)
(* wrote it, and no audio buffer or chunk list of one request holds        *)
(* anything of the other.                                                  *)
(***************************************************************************)
\* Every engine sample of the array was produced for request r.
AudioOf(audio, r) ==
    \A k \in 1..Len(audio) :
        "req" \in DOMAIN audio[k] => audio[k].req = r

RECURSIVE TotalLength(_)
TotalLength(chunks) ==
    IF chunks = <<>> THEN 0
    ELSE Len(Head(chunks)) + TotalLength(Tail(chunks))

\* The lists of a request hold audio of that request only; it has a chunk
\* plan and futures only if its own text was planned, and the plan holds
\* no more characters than that text.
ListsOwn(l) ==
    /\ \A k \in 1..Len(l.all_audio_chunks) :
          AudioOf(l.all_audio_chunks[k], l.rid)
    /\ \A k \in 1..Len(l.audio_chunks) : AudioOf(l.audio_chunks[k], l.rid)
    /\ \A k \in 1..Len(l.futures) : AudioOf(l.futures[k].result, l.rid)
    /\ l.planned =>
          /\ Len(l.cleaned_text) >= 150
          /\ TotalLength(l.text_chunks) <= Len(l.cleaned_text)
          /\ Len(l.futures) \in {0, Len(l.text_chunks)}
    /\ ~l.planned => l.text_chunks = <<>> /\ l.futures = <<>>
    /\ l.pc # "start" => l.cleaned_text = l.text

\* What a finished request returned names a file with its own audio.
FileOwn(l) ==
    l.pc = "done" =>
        \E f \in files : f.name = l.returned /\ AudioOf(f.audio, l.rid)

C17_RequestsIsolated ==
    other # NoRequest =>
        /\ ListsOwn(Locals) /\ ListsOwn(other)
        /\ FileOwn(Locals) /\ FileOwn(other)
        /\ (pc = "done" /\ other.pc = "done") =>
              /\ returned # other.returned
              /\ Cardinality(files) = 2
        /\ \A f, g \in files : f.name = g.name => f = g

\* Both requests are done; the one that started the pool finished last, and
\* each of the two files holds engine audio of its own request.
C17_Witness ==
    /\ other # NoRequest
    /\ pc = "done" /\ other.pc = "done"
    /\ rid = 1 /\ futures # <<>> /\ returned.id = 2
    /\ other.returned.id = 1
    /\ other.audio_chunks # <<>>
    /\ \E f, g \in files :
          /\ f.name = returned /\ g.name = other.returned
          /\ IsEngineAudio(f.audio)
          /\ g.audio # <<>> /\ AudioOf(g.audio, 2)
          /\ "req" \in DOMAIN g.audio[1]

(***************************************************************************)
(* C20: in MultimodalCorrectionPipeline.run the calls come in the order    *)
(* transcription (only when an audio path is given), initial analysis,     *)
(* correction, text-to-speech.  The correction call is made in every run   *)
(* that no exception of an earlier call has ended, whatever the arguments, *)
(* with the text of the initial analysis; text_to_speech is called only    *)
(* when enable_tts is true and only after the correction call returned;    *)
(* when enable_tts is false no synthesis call is made and the result has   *)
(* no tts_audio entry.                                                     *)
(***************************************************************************)
IsCorrectionCall(c) ==
    c.fn = "generate_content" /\ c.arg.kind = "correction_prompt"

StepOf(c) ==
    CASE c.fn = "transcribe_audio" -> 1
      [] c.fn = "process_image_and_query" -> 2
      [] IsCorrectionCall(c) -> 3
      [] c.fn = "generate_content" /\ c.arg.kind = "summary_prompt" -> 4
      [] c.fn = "text_to_speech" -> 5

ManagerCallsOf(fn) ==
    {i \in 1..Len(manager_calls) : manager_calls[i].fn = fn}

CorrectionCalls ==
    {i \in 1..Len(manager_calls) : IsCorrectionCall(manager_calls[i])}

PastCorrection == run_pc \in {"step4", "speak", "return", "returned"}

C20_StepsInOrder ==
    /\ \A i, j \in 1..Len(manager_calls) :
          i < j => StepOf(manager_calls[i]) < StepOf(manager_calls[j])
    /\ ManagerCallsOf("transcribe_audio") # {} => Truthy(audio_path)
    /\ (Truthy(audio_path) /\ run_pc # "step1") =>
          manager_calls[1].fn = "transcribe_audio"
    /\ \A i \in CorrectionCalls :
          /\ "initial_analysis" \in DOMAIN results
          /\ manager_calls[i].arg.about = results["initial_analysis"]
          /\ manager_calls[i].arg.about = initial_response
    /\ PastCorrection =>
          \E i \in CorrectionCalls : ~manager_calls[i].raised
    /\ run_pc = "raised" => manager_calls[Len(manager_calls)].raised
    /\ \A i \in 1..(Len(manager_calls) - 1) : ~manager_calls[i].raised
    /\ \A j \in ManagerCallsOf("text_to_speech") :
          /\ enable_tts
          /\ \E i \in CorrectionCalls : i < j /\ ~manager_calls[i].raised
    /\ ~enable_tts =>
          /\ ManagerCallsOf("text_to_speech") = {}
          /\ "tts_audio" \notin DOMAIN results
    /\ (enable_tts /\ run_pc = "returned") =>
          /\ ManagerCallsOf("text_to_speech") # {}
          /\ "tts_audio" \in DOMAIN results

\* A run with an audio file, an image and enable_tts returned after the
\* four steps, each one call, in order.
C20_Witness ==
    /\ run_pc = "returned"
    /\ enable_tts
    /\ Len(manager_calls) = 4
    /\ manager_calls[1].fn = "transcribe_audio"
    /\ manager_calls[2].fn = "process_image_and_query"
    /\ IsCorrectionCall(manager_calls[3])
    /\ manager_calls[3].arg.about = initial_response
    /\ manager_calls[4].fn = "text_to_speech"
    /\ "tts_audio" \in DOMAIN results

\* A run without enable_tts returned after the correction, no file named.
C20_WitnessNoSpeech ==
    /\ run_pc = "returned"
    /\ ~enable_tts
    /\ CorrectionCalls # {}
    /\ DOMAIN results = {"initial_analysis", "corrected_analysis"}

(***************************************************************************)
(* The Flask application (app/backend/services/flask_app.py) serving one   *)
(* HTTP request.  A JSON value is a record that tells its type; a speed is *)
(* counted in tenths.  model_manager.text_to_speech is one call that       *)
(* raises or returns a name, and the file of that name is absent from the  *)
(* upload folder, empty or not empty.                                      *)
(***************************************************************************)
\* @app.route(...): the rules of the URL map and their methods.
url_map ==
    [p \in {"/analyze", "/api/transcribe", "/api/generate_response",
            "/api/text_to_speech"} |-> {"POST"}]
    @@ [p \in {"/api/voices", "/api/voices_by_language", "/api/health"}
            |-> {"GET"}]

\* A key the JSON object does not have.
Missing == [kind |-> "missing"]

\* A JSON number, in tenths.
Num(tenths) == [kind |-> "num", tenths |-> tenths]

\* A JSON boolean.
Bool(b) == [kind |-> "bool", val |-> b]

\* A body that request.json does not turn into an object.
NotJson == [kind |-> "not json"]

\* data.get(key, default)
Get(data, key, default) == IF data[key] = Missing THEN default ELSE data[key]

\* "if not value:" for None, the empty string, False and other values
Falsy(value) == value \in {NoneValue, Str(""), Bool(FALSE)}

\* float(value) raises for a string that is no number and for None
FloatRaises(value) == value.kind # "num"

\* max(speed, 1.2) when high_perf is set
RouteSpeed(given, high_perf) ==
    IF ~Falsy(high_perf) /\ given.tenths < 12 THEN Num(12) ELSE given

\* The bodies of POST requests to /api/text_to_speech.
JsonBodies ==
    [text : {Missing, Str(""), Str("The image contains a cat.")},
     voice : {Missing, Str("bm_george")},
     speed : {Missing, Num(10), Num(15), Str("fast")},
     high_performance : {Missing, Bool(TRUE)}]

\* The form of POST requests to /api/process: which files it carries.
Forms == [image : BOOLEAN, audio : BOOLEAN]

Requests ==
    {[path |-> "/api/text_to_speech", method |-> m, body |-> b] :
        m \in {"POST", "GET"}, b \in JsonBodies \cup {NotJson}}
    \cup {[path |-> "/api/process", method |-> "POST", body |-> f] :
            f \in Forms}

\* What os.path.exists and os.path.getsize find for the returned name.
FileStates == {"absent", "empty", "not empty"}

Respond(status, body) ==
    /\ response' = [status |-> status, body |-> body]
    /\ route_pc' = "responded"

\* One request has arrived.
InitRoute ==
    /\ request \in Requests
    /\ route_pc = "received"
    /\ response = NoneValue
    /\ route_calls = <<>>
    /\ text = <<>>
    /\ voice = "af_heart"
    /\ voice_file_exists = FALSE
    /\ speed = DefaultSpeed
    /\ rid = 1
    /\ other = NoRequest
    /\ InitRequest
    /\ NoRun

\* Flask matches the request against the URL map: 404 for a path without a
\* rule, 405 for a method the rule does not list, neither with a JSON body.
Dispatch ==
    /\ route_pc = "received"
    /\ IF request.path \notin DOMAIN url_map
       THEN Respond(404, NoneValue)
       ELSE IF request.method \notin url_map[request.path]
       THEN Respond(405, NoneValue)
       ELSE /\ route_pc' = request.path
            /\ UNCHANGED response
    /\ UNCHANGED <<request, route_calls, speech, pipeline>>

\* Lines 130-141 of the text_to_speech view: the fields are read, the speed
\* converted, and only then the text tested.
ReadFields ==
    /\ route_pc = "/api/text_to_speech"
    /\ LET data == request.body
       IN  IF data = NotJson
           THEN Respond(500, [error |-> "TTS failed",
                              details |-> "request.json"])
           ELSE IF FloatRaises(Get(data, "speed", Num(10)))
           THEN Respond(500, [error |-> "TTS failed",
                              details |-> "float"])
           ELSE IF Falsy(Get(data, "text", NoneValue))
           THEN Respond(400, [error |-> "No text provided"])
           ELSE /\ route_pc' = "line 143"
                /\ UNCHANGED response
    /\ UNCHANGED <<request, route_calls, speech, pipeline>>

\* Lines 143-154: the call of model_manager.text_to_speech, the test of the
\* file and the response.
SynthesizeAndRespond ==
    /\ route_pc = "line 143"
    /\ LET data == request.body
           call == [fn |-> "text_to_speech",
                    text |-> data.text,
                    voice |-> Get(data, "voice", Str("af_heart")),
                    speed |-> RouteSpeed(Get(data, "speed", Num(10)),
                                         Get(data, "high_performance",
                                             Bool(FALSE)))]
       IN  \/ /\ route_calls' =
                    Append(route_calls,
                           call @@ [raised |-> TRUE, result |-> NoneValue,
                                    file |-> "absent"])
              /\ Respond(500, [error |-> "TTS failed",
                               details |-> "text_to_speech"])
           \/ \E audio_file \in SpeechFiles, state \in FileStates :
                 /\ route_calls' =
                       Append(route_calls,
                              call @@ [raised |-> FALSE,
                                       result |-> audio_file,
                                       file |-> state])
                 /\ IF state # "not empty"
                    THEN Respond(500, [error |-> "Audio generation failed"])
                    ELSE Respond(200, [audio_response |-> audio_file])
    /\ UNCHANGED <<request, speech, pipeline>>

NextRoute ==
    \/ Dispatch
    \/ ReadFields
    \/ SynthesizeAndRespond

SpecRoute == InitRoute /\ [][NextRoute]_vars

(***************************************************************************)
(* Claims about the Flask routes.                                          *)
(***************************************************************************)
\* The request to the path was a POST and has been answered.
Answered(path) ==
    /\ route_pc = "responded"
    /\ request.path = path
    /\ request.method = "POST"

\* The only call of model_manager.text_to_speech returned a name whose file
\* is in the upload folder and is not empty.
FileIsThere ==
    /\ ~route_calls[1].raised
    /\ route_calls[1].file = "not empty"

\* C21: a POST to /api/text_to_speech with a JSON object is answered 400,
\* without a call of text_to_speech, when the text field is missing or
\* empty; otherwise text_to_speech is called once and the answer is 200
\* with the returned name under audio_response if and only if that file is
\* in the upload folder with non-zero size, and 500 in every other case.
C21_TextToSpeechRoute ==
    Answered("/api/text_to_speech") /\ request.body # NotJson =>
        IF request.body.text \in {Missing, Str("")}
        THEN /\ response.status = 400
             /\ route_calls = <<>>
        ELSE /\ Len(route_calls) = 1
             /\ response.status = IF FileIsThere THEN 200 ELSE 500
             /\ FileIsThere =>
                  response.body = [audio_response |-> route_calls[1].result]

\* C22: a POST to /api/process is answered 400 with 'No image file
\* provided' when it has no image, 400 with 'No audio file provided' when
\* it has an image and no audio, and 200 or, when a call raises, 500 with
\* the exception text under details when it has both.
C22_ProcessRoute ==
    Answered("/api/process") =>
        IF ~request.body.image
        THEN response = [status |-> 400,
                         body |-> [error |-> "No image file provided"]]
        ELSE IF ~request.body.audio
        THEN response = [status |-> 400,
                         body |-> [error |-> "No audio file provided"]]
        ELSE /\ response.status \in {200, 500}
             /\ response.status = 200 =>
                  DOMAIN response.body =
                      {"transcription", "response", "audio_response"}
             /\ response.status = 500 => "details" \in DOMAIN response.body

(***************************************************************************)
(* The chunk planner as a function of its text (lines 244-274 of           *)
(* model_manager.py): SpecPlan applies it once to a text that is either    *)
(* one of InputTexts or any string of at most MaxShortLen characters over  *)
(* a letter, two terminal characters and the blank.                        *)
(***************************************************************************)
MaxShortLen == 4

PlanAlphabet == {"a", ".", "?", " "}

ShortTexts == UNION {[1..n -> PlanAlphabet] : n \in 0..MaxShortLen}

PlannerTexts == ShortTexts \cup InputTexts

InitPlan ==
    /\ text \in PlannerTexts
    /\ voice = "af_heart"
    /\ voice_file_exists = FALSE
    /\ speed = DefaultSpeed
    /\ rid = 1
    /\ other = NoRequest
    /\ InitRequest
    /\ NoRun
    /\ NoRoute

\* Lines 244-274 with text as cleaned_text: the sentence split and the
\* packing, nothing after them.
ApplyPlanner ==
    /\ pc = "start"
    /\ pc' = "planned"
    /\ planned' = TRUE
    /\ cleaned_text' = text
    /\ text_chunks' = PlanChunks(text)
    /\ UNCHANGED <<env, front, text, futures, collected, all_audio_chunks,
                   sentences, si, audio_chunks, calls, files, returned,
                   next_uuid>>

NextPlan == ApplyPlanner

SpecPlan == InitPlan /\ [][NextPlan]_vars

(***************************************************************************)
(* Claims about the chunk planner.                                         *)
(***************************************************************************)
\* The planner has been applied to a text within the bound.
PlannedWithinBound ==
    /\ pc = "planned"
    /\ Len(text) <= MaxChunkChars

\* C23: the planner applied to a text of at most 150 characters returns
\* exactly one chunk, equal to the text character for character.
C23_PlanRoundTrip ==
    PlannedWithinBound => text_chunks = <<text>>

\* The sequences of a sequence, one after the other.
RECURSIVE Flatten(_)
Flatten(seqs) ==
    IF seqs = <<>> THEN <<>> ELSE Head(seqs) \o Flatten(Tail(seqs))

\* The sentences of a text: what the split finds, but for the empty string
\* it finds where the text ends in blanks.
SentencesOf(s) == SelectSeq(SplitSentences(s), LAMBDA x : x # <<>>)

\* The sentences contained in the chunks, read chunk by chunk in plan order.
SentencesOfPlan ==
    Flatten([i \in 1..Len(text_chunks) |-> SentencesOf(text_chunks[i])])

\* The characters of a text that are not blanks, in order.
NonBlank(s) == SelectSeq(s, LAMBDA c : ~IsSpace(c))

EndsWithTerminal(s) == s # <<>> /\ IsTerminal(s[Len(s)])

\* The text of the input that follows its last terminal character.
Remainder(s) ==
    LET ends == RunEnds(s)
        last == IF ends = {} THEN 0
                ELSE CHOOSE i \in ends : \A j \in ends : j <= i
    IN  SubSeq(s, last + 1, Len(s))

\* Nothing is dropped, duplicated or reordered, and no chunk is empty.
PlanKeepsText ==
    /\ SentencesOfPlan = SentencesOf(text)
    /\ NonBlank(Flatten(text_chunks)) = NonBlank(text)
    /\ \A i \in 1..Len(text_chunks) : text_chunks[i] # <<>>

\* C24 as stated: the sentences contained in the chunks, read chunk by
\* chunk in plan order, are exactly the sentences of the input in input
\* order, every one of them ends with a terminal character, and no chunk is
\* empty.
C24_PlanKeepsSentencesAllTerminated ==
    pc = "planned" =>
        /\ PlanKeepsText
        /\ \A j \in 1..Len(SentencesOfPlan) :
              EndsWithTerminal(SentencesOfPlan[j])

\* C24: the sentences contained in the chunks, read chunk by chunk in plan
\* order, are exactly the sentences of the input in input order, the
\* characters of the chunks other than blanks are those of the input in
\* order, no chunk is empty, and every sentence ends with its terminal
\* characters except the last one when the input goes on after its last
\* terminal character: that one is the rest of the input, stripped.
C24_PlanKeepsSentences ==
    pc = "planned" =>
        /\ PlanKeepsText
        /\ \A j \in 1..Len(SentencesOfPlan) :
              \/ EndsWithTerminal(SentencesOfPlan[j])
              \/ /\ j = Len(SentencesOfPlan)
                 /\ SentencesOfPlan[j] = Strip(Remainder(text))

\* A plan of two chunks, one of them holding two sentences.
C24_Witness ==
    /\ pc = "planned"
    /\ Len(text_chunks) = 2
    /\ Len(SentencesOfPlan) = 3

\* A plan whose last sentence is the unterminated rest of the input.
C24_WitnessRemainder ==
    /\ pc = "planned"
    /\ text_chunks # <<>>
    /\ Strip(Remainder(text)) # <<>>

(***************************************************************************)
(* Claims about the end of the parallel path and about the fallback tiers. *)
(***************************************************************************)
\* Every chunk handed to the pool has been worked off: process_chunk has
\* returned for it.
AllWorkersFinished ==
    \A i \in 1..Len(futures) : futures[i].state = "done"

\* C25: in the parallel path a file is written, and a value returned, only
\* after every submitted chunk call has completed; no write and no return
\* happens while a worker of the request is queued or running.
C25_WriteAfterAllWorkers ==
    (futures # <<>> /\ (files # {} \/ returned # NoFile)) =>
        AllWorkersFinished

\* The pool worked off three chunks and the request wrote its file.
C25_Witness ==
    /\ WroteFromPool
    /\ Len(futures) = 3
    /\ AllWorkersFinished
    /\ \E f \in files : f.name = returned

\* The sentence calls of _fallback_tts, in the order made.
SentenceCalls == SelectSeq(calls, LAMBDA c : c.tier = "sentence")

\* The sentences that are not blank, by their place in the split.
SpokenPlaces == {i \in 1..Len(sentences) : ~IsBlank(sentences[i])}

\* The loop over the sentences has ended and the code after it has run.
PastSentences ==
    /\ sentences # <<>>
    /\ pc \in {"fb_apology", "done"}

\* The file the request returned.
ReturnedFile == CHOOSE f \in files : f.name = returned

\* The arrays the sentence calls yielded, in sentence order: all of them, or
\* only those of the calls that did not raise.
SentenceArrays(also_raised) ==
    Flatten([k \in 1..Len(SentenceCalls) |->
                IF SentenceCalls[k].raised /\ ~also_raised THEN <<>>
                ELSE EngineYield("sentence", Nth(SpokenPlaces, k),
                                 SentenceCalls[k].y)])

\* No call for a blank sentence, and a call for every other sentence gone
\* through, whatever the calls before it did.
OneCallPerSpokenSentence ==
    sentences # <<>> =>
        /\ Len(SentenceCalls) = Cardinality({i \in SpokenPlaces : i < si})
        /\ \A k \in 1..Len(SentenceCalls) :
              SentenceCalls[k].text = sentences[Nth(SpokenPlaces, k)]

\* After the loop: the arrays are written as <uuid>_response.wav without an
\* apology call, or there are none and the apology is attempted.
SentencesWritten(arrays) ==
    PastSentences =>
        IF \E k \in 1..Len(SentenceCalls) : SentenceCalls[k].y > 0
        THEN /\ Done
             /\ ReturnedFile.name.suffix = "_response.wav"
             /\ ReturnedFile.audio = Concatenate(arrays)
             /\ CallsOf("apology") = {}
        ELSE pc = "fb_apology" \/ CallsOf("apology") # {}

\* C26 as stated: in the sentence tier a blank sentence gets no engine
\* call, a raising call does not stop the sentences after it, and the audio
\* of the calls that did not raise, in sentence order, is what is written
\* as <uuid>_response.wav, without an apology call once a sentence gave
\* audio.
C26_SucceedingSentencesWritten ==
    /\ OneCallPerSpokenSentence
    /\ SentencesWritten(SentenceArrays(FALSE))

\* C26: in the sentence tier a blank sentence gets no engine call, a
\* raising call does not stop the sentences after it, and every array the
\* sentence calls yielded, those yielded before a raise included, is
\* written in sentence order as <uuid>_response.wav, without an apology
\* call; the apology is attempted only when no sentence call yielded an
\* array.
C26_SentenceArraysWritten ==
    /\ OneCallPerSpokenSentence
    /\ SentencesWritten(SentenceArrays(TRUE))

\* A blank sentence was passed over, the first sentence call raised, the
\* second gave audio and the file was written.
C26_Witness ==
    /\ Done
    /\ \E i \in 1..Len(sentences) : IsBlank(sentences[i])
    /\ Len(SentenceCalls) = 2
    /\ SentenceCalls[1].raised
    /\ ~SentenceCalls[2].raised /\ SentenceCalls[2].y > 0
    /\ ReturnedFile.name.suffix = "_response.wav"

\* No sentence gave audio and the apology was attempted.
C26_WitnessApology ==
    /\ Len(SentenceCalls) = 2
    /\ \A k \in 1..2 : SentenceCalls[k].y = 0
    /\ CallsOf("apology") # {}

\* The engine call of the single-chunk path raised or yielded no array.
SingleCallFailed == \E i \in CallsOf("single") : CallFailed(calls[i])

\* What text_to_speech hands to _fallback_tts: the cleaned text, the
\* resolved voice and its own speed.
FallbackArguments ==
    [text |-> IF has_special_formatting(text) THEN clean_text_for_tts(text)
              ELSE text,
     voice |-> ResolveVoice(voice, voice_file_exists),
     speed |-> speed]

\* The audio comes from _fallback_tts: from its engine calls, or silence.
IsFallbackAudio(audio) ==
    \/ IsSilence(audio)
    \/ /\ IsEngineAudio(audio)
       /\ TiersOf(audio) \subseteq {"whole", "sentence", "apology"}

\* C27: on the single-chunk path, when the engine call raises or yields no
\* audio, text_to_speech writes no file itself: it calls _fallback_tts with
\* the cleaned text, the resolved voice and the same speed, and what it
\* returns is the file _fallback_tts wrote.
C27_SingleFailureFallsBack ==
    SingleCallFailed =>
        /\ Len(calls) = 1 =>
              pc = "fb_whole" /\ files = {} /\ returned = NoFile
        /\ Len(calls) > 1 =>
              /\ calls[2].tier = "whole"
              /\ [text |-> calls[2].text, voice |-> calls[2].voice,
                  speed |-> calls[2].speed] = FallbackArguments
              /\ calls[2].speed = calls[1].speed
        /\ Done =>
              /\ Cardinality(files) = 1
              /\ IsFallbackAudio(ReturnedFile.audio)

\* The single call on a cleaned text raised after yielding an array, and the
\* request, made with a speed of 1.0 and a voice that is replaced, returned
\* what _fallback_tts wrote from its whole-text call.
C27_Witness ==
    /\ Done
    /\ clean_called
    /\ speed = 10
    /\ voice = "my_voice"
    /\ calls[1].tier = "single" /\ calls[1].raised /\ calls[1].y > 0
    /\ Len(calls) = 2 /\ calls[2].y > 0 /\ ~calls[2].raised
    /\ ReturnedFile.name.suffix = "_response.wav"

\* What output_filename is: an identifier and a suffix, no directory.
IsBareName(value) == DOMAIN value = {"id", "suffix"}

C28_WitnessSingle ==
    /\ Done
    /\ Len(calls) = 1
    /\ returned.suffix = "_response.wav"
    /\ Cardinality(files) = 1

\* The engine calls made so far: those of the request's own thread and those
\* of process_chunk.
EngineCallsMade ==
    Len(calls) + Cardinality({i \in 1..Len(futures) :
                                 futures[i].state \in {"returning", "done"}})

\* The chunks of the request: those of the plan, or the one chunk of the
\* single-chunk path.
NumberOfChunks == IF planned THEN Len(text_chunks) ELSE 1

\* The chunks, one whole-text call, the sentences, one apology call.
CallBound == NumberOfChunks + 1 + Len(FallbackSplit(cleaned_text)) + 1

CallsBounded == pc # "start" => EngineCallsMade <= CallBound

\* While the calling thread waits for the pool, a chunk not yet collected is
\* done or in the hands of a thread, or a thread is free to take it.
NoWaitOnUnstartedWorker ==
    (pc = "pool" /\ collected # 1..Len(futures)) =>
        \E i \in 1..Len(futures) :
            \/ futures[i].state \in {"running", "returning"}
            \/ futures[i].state = "done" /\ i \notin collected
            \/ futures[i].state = "queued" /\ Cardinality(Running) < max_workers

\* C29: a request whose engine calls all end or raise and whose threads are
\* scheduled fairly eventually returns; it makes at most as many engine
\* calls as it has chunks, plus one whole-text call, plus its sentences, plus
\* one apology call; and it never waits on a worker that is not started.
C29_EventuallyReturns ==
    /\ <>Done
    /\ []CallsBounded
    /\ []NoWaitOnUnstartedWorker

\* A request of three chunks that made every call of the bound and returned.
C29_Witness ==
    /\ Done
    /\ Len(futures) = 3
    /\ EngineCallsMade = CallBound

\* A request on the single-chunk path that made every call of the bound: the
\* single call, the whole-text call, one call per sentence and the apology.
C29_WitnessSingle ==
    /\ Done
    /\ ~planned
    /\ CallsOf("single") # {}
    /\ EngineCallsMade = CallBound

(***************************************************************************)
(* Claims about the summary of MultimodalCorrectionPipeline.run.           *)
(***************************************************************************)
\* The response of the model to the correction prompt, as run stored it.
CorrectedAnalysis == results["corrected_analysis"]

\* The text is a response of the model to the summary prompt for r.
IsSummaryOf(t, r) == t \in ResponsesTo(SummaryPrompt(r))

\* C30: when run calls text_to_speech, the text it gives is the model's
\* summary of the corrected response and summary_used is true if that
\* response has more than 800 characters, and is the corrected response
\* itself with summary_used false if it has 800 or fewer;
\* results["corrected_analysis"] holds the unsummarized response either way;
\* a result returned has the key summary_used exactly when enable_tts is
\* true.
C30_SummaryOnlyWhenLong ==
    /\ \A j \in ManagerCallsOf("text_to_speech") :
          /\ enable_tts
          /\ {"corrected_analysis", "summary_used"} \subseteq DOMAIN results
          /\ CorrectedAnalysis
                \in ResponsesTo(CorrectionPrompt(initial_response))
          /\ IF CorrectedAnalysis.len > SummaryThreshold
             THEN /\ IsSummaryOf(manager_calls[j].arg, CorrectedAnalysis)
                  /\ results["summary_used"] = TRUE
             ELSE /\ manager_calls[j].arg = CorrectedAnalysis
                  /\ results["summary_used"] = FALSE
    /\ run_pc = "returned" =>
          /\ "summary_used" \in DOMAIN results <=> enable_tts
          /\ enable_tts => ManagerCallsOf("text_to_speech") # {}

\* A run that summarized a response of 801 characters, spoke the summary and
\* returned.
C30_Witness ==
    /\ run_pc = "returned"
    /\ enable_tts
    /\ CorrectedAnalysis.len = SummaryThreshold + 1
    /\ results["summary_used"] = TRUE
    /\ \E j \in ManagerCallsOf("text_to_speech") :
          manager_calls[j].arg # CorrectedAnalysis

\* A run that spoke a response of exactly 800 characters as it is.
C30_WitnessAtThreshold ==
    /\ run_pc = "returned"
    /\ enable_tts
    /\ CorrectedAnalysis.len = SummaryThreshold
    /\ results["summary_used"] = FALSE
    /\ \E j \in ManagerCallsOf("text_to_speech") :
          manager_calls[j].arg = CorrectedAnalysis

\* A run without speech returned a result without the key summary_used.
C30_WitnessNoSpeech ==
    /\ run_pc = "returned"
    /\ ~enable_tts
    /\ "summary_used" \notin DOMAIN results
    /\ "corrected_analysis" \in DOMAIN results

====
